---- MODULE Spec2Model ----
(***************************************************************************)
(* A model of pipefy-mcp-server: the shared gql client guarded by the      *)
(* per-instance asyncio lock of BasePipefyClient, the CardService and      *)
(* PipeService request shaping, and the tool layer's elicitation flows.    *)
(***************************************************************************)
EXTENDS Integers, Sequences, FiniteSets, TLC

\* ------------------------------------------------------------------ bounds

\* Number of concurrently scheduled coroutines calling execute_query.
NTasks == 3

\* Longest `fields` dict or list, and longest list of field definitions.
MaxFields == 2

\* Longest `field_updates` list.
MaxUpdates == 2

\* organizations in a search result, and pipes in one organization
MaxOrgs == 2

MaxPipes == 2

Tasks == 1..NTasks

\* The BasePipefyClient instances of the process: both services subclass it.
Instances == {"pipe_service", "card_service"}

\* variable_values handed to execute_query (pipe_id / card_id of the request).
VariableValues == {101, 102}

\* ------------------------------------------------------------------ state

VARIABLES
    pc,             \* position of each coroutine inside execute_query
    instanceOf,     \* the BasePipefyClient instance each coroutine calls
    variables,      \* the variables argument of each call
    locked,         \* asyncio.Lock._locked of each instance's _client_lock
    waiters,        \* asyncio.Lock._waiters of each instance's _client_lock
    connected,      \* the shared gql Client has an open session
    outcome,        \* what session entry / session.execute produced
    result,         \* what execute_query handed to its caller
    attempts,       \* number of session.execute calls made for the call
    svc_pc,         \* position of the service method being run
    svc_op,         \* the CardService / PipeService method invoked
    svc_args,       \* its arguments
    requests,       \* the (document, variables) pairs given to execute_query
    svc_resp,       \* what execute_query answered
    svc_ret,        \* what the method returned, or the exception it raised
    tool,           \* the tool being run
    tool_pc,        \* its position
    tool_args,      \* its arguments
    can_elicit,     \* ctx.session.client_params.capabilities.elicitation
    client_calls,   \* the calls the tool made on the PipefyClient
    elicitations,   \* the answers to the tool's ctx.elicit requests
    tool_local,     \* its local variables
    tool_ret,       \* the payload it returned, or the exception it raised
    construction    \* one BasePipefyClient(...) call: arguments and outcome

adapterVars == <<pc, instanceOf, variables, locked, waiters, connected,
                 outcome, result, attempts>>

serviceVars == <<svc_pc, svc_op, svc_args, requests, svc_resp, svc_ret>>

toolVars == <<tool, tool_pc, tool_args, can_elicit, client_calls,
              elicitations, tool_local, tool_ret>>

constructionVars == <<construction>>

vars == <<adapterVars, serviceVars, toolVars, constructionVars>>

NoOutcome == [kind |-> "none", data |-> 0, error |-> "none"]

\* The upstream answer to a request: the payload of the entity asked for.
UpstreamResponse(v) == [kind |-> "ok", data |-> v, error |-> "none"]

UpstreamErrors == {"TransportQueryError", "TransportServerError"}

Raised(e) == [kind |-> "raised", data |-> 0, error |-> e]

\* ------------------------------------------------------ Python values

\* A Python value: its type tag, for a scalar its str() rendering, for a
\* list its items and for a dict its (key, value) pairs in insertion order.
PyNone == [tag |-> "none", atom |-> "None", items |-> <<>>]
PyStr(s) == [tag |-> "str", atom |-> s, items |-> <<>>]
PyInt(n) == [tag |-> "int", atom |-> ToString(n), items |-> <<>>]
PyTrue == [tag |-> "bool", atom |-> "True", items |-> <<>>]
PyFalse == [tag |-> "bool", atom |-> "False", items |-> <<>>]
PyList(s) == [tag |-> "list", atom |-> "", items |-> s]
PyDict(s) == [tag |-> "dict", atom |-> "", items |-> s]
KV(key, val) == [k |-> key, v |-> val]

\* A float with one decimal, given in tenths.
PyFloat(tenths) ==
    [tag |-> "float",
     atom |-> ToString(tenths \div 10) \o "." \o ToString(tenths % 10),
     items |-> <<>>]

\* bool(v)
Truthy(v) ==
    CASE v.tag = "none" -> FALSE
      [] v.tag = "str" -> v.atom # ""
      [] v.tag = "int" -> v.atom # "0"
      [] v.tag = "bool" -> v.atom = "True"
      [] v.tag = "float" -> v.atom # "0.0"
      [] OTHER -> v.items # <<>>

\* key in d
DictHas(d, key) == \E i \in 1..Len(d.items) : d.items[i].k = key

\* d[key], for a key that is present
DictAt(d, key) ==
    d.items[CHOOSE i \in 1..Len(d.items) : d.items[i].k = key].v

\* d.get(key, default)
DictGet(d, key, default) == IF DictHas(d, key) THEN DictAt(d, key) ELSE default

\* str.upper() on one character
UpperChar(c) ==
    CASE c = "a" -> "A" [] c = "b" -> "B" [] c = "c" -> "C" [] c = "d" -> "D"
      [] c = "e" -> "E" [] c = "f" -> "F" [] c = "g" -> "G" [] c = "h" -> "H"
      [] c = "i" -> "I" [] c = "j" -> "J" [] c = "k" -> "K" [] c = "l" -> "L"
      [] c = "m" -> "M" [] c = "n" -> "N" [] c = "o" -> "O" [] c = "p" -> "P"
      [] c = "q" -> "Q" [] c = "r" -> "R" [] c = "s" -> "S" [] c = "t" -> "T"
      [] c = "u" -> "U" [] c = "v" -> "V" [] c = "w" -> "W" [] c = "x" -> "X"
      [] c = "y" -> "Y" [] c = "z" -> "Z" [] OTHER -> c

RECURSIVE Upper(_)
Upper(s) ==
    IF s = "" THEN ""
    ELSE UpperChar(SubSeq(s, 1, 1)) \o Upper(SubSeq(s, 2, Len(s)))

\* ------------------------------------------------- nothing invoked yet

NoArgs == [id |-> 0, fields |-> PyNone, title |-> PyNone,
           assignee_ids |-> PyNone, label_ids |-> PyNone,
           due_date |-> PyNone, field_updates |-> PyNone,
           required_only |-> FALSE, include_fields |-> FALSE,
           pipe_name |-> PyNone, match_threshold |-> 70]

ServiceIdle ==
    /\ svc_pc = "idle"
    /\ svc_op = "none"
    /\ svc_args = NoArgs
    /\ requests = <<>>
    /\ svc_resp = PyNone
    /\ svc_ret = PyNone

NoToolArgs == [card_id |-> 0, pipe_id |-> 0, phase_id |-> 0, debug |-> FALSE,
               fields |-> PyNone, required_fields_only |-> FALSE,
               update |-> NoArgs, comment_id |-> 0, text |-> ""]

NoLocals == [card_title |-> PyNone, pipe_name |-> PyNone,
             expected_fields |-> PyList(<<>>), phase_name |-> PyNone,
             data |-> PyNone, exc |-> PyNone, response |-> PyNone,
             card_response |-> PyNone, delete_response |-> PyNone]

ToolIdle ==
    /\ tool = "none"
    /\ tool_pc = "idle"
    /\ tool_args = NoToolArgs
    /\ can_elicit = FALSE
    /\ client_calls = <<>>
    /\ elicitations = <<>>
    /\ tool_local = NoLocals
    /\ tool_ret = PyNone

\* ----------------------------------------------------- BasePipefyClient

\* BasePipefyClient.__init__: `client_lock if client_lock is not None else
\* asyncio.Lock()`: every instance built without a lock gets a fresh one.
\* ------------------------------------------- BasePipefyClient.__init__

NoConstruction ==
    [pc |-> "idle", settings |-> PyNone, schema |-> PyNone,
     client |-> PyNone, client_lock |-> PyNone, self |-> PyNone,
     transports |-> <<>>, error |-> PyNone]

NotConstructing == construction = NoConstruction

AdapterInit ==
    /\ pc = [t \in Tasks |-> "idle"]
    /\ variables \in [Tasks -> VariableValues]
    /\ locked = [a \in Instances |-> FALSE]
    /\ waiters = [a \in Instances |-> <<>>]
    /\ connected = FALSE
    /\ outcome = [t \in Tasks |-> NoOutcome]
    /\ result = [t \in Tasks |-> NoOutcome]
    /\ attempts = [t \in Tasks |-> 0]

\* asyncio.Lock.acquire takes the lock at once only when it is free and
\* nobody is queued.
LockIgnored(a) == TRUE

CanAcquire(a) == ~locked[a] /\ waiters[a] = <<>>

\* `async with self._client_lock:` with the lock free.
AcquireLock(t) ==
    /\ pc[t] = "idle"
    /\ CanAcquire(instanceOf[t])
    /\ locked' = [locked EXCEPT ![instanceOf[t]] = TRUE]
    /\ pc' = [pc EXCEPT ![t] = "locked"]
    /\ UNCHANGED <<instanceOf, variables, waiters, connected, outcome,
                   result, attempts>>

\* `async with self._client_lock:` with the lock taken: queue and suspend.
WaitForLock(t) ==
    /\ pc[t] = "idle"
    /\ ~CanAcquire(instanceOf[t])
    /\ waiters' = [waiters EXCEPT ![instanceOf[t]] = Append(@, t)]
    /\ pc' = [pc EXCEPT ![t] = "waiting"]
    /\ UNCHANGED <<instanceOf, variables, locked, connected, outcome,
                   result, attempts>>

\* A woken waiter resumes: it leaves the queue and takes the lock.
ResumeWithLock(t) ==
    /\ pc[t] = "woken"
    /\ waiters' = [waiters EXCEPT ![instanceOf[t]] =
                       SelectSeq(@, LAMBDA u : u # t)]
    /\ locked' = [locked EXCEPT ![instanceOf[t]] = TRUE]
    /\ pc' = [pc EXCEPT ![t] = "locked"]
    /\ UNCHANGED <<instanceOf, variables, connected, outcome, result,
                   attempts>>

\* `async with self.client as session:`: the transport connects, and refuses
\* a second connect while a session is open.
EnterSession(t) ==
    /\ pc[t] = "locked"
    /\ IF connected
         THEN /\ outcome' = [outcome EXCEPT
                                ![t] = Raised("TransportAlreadyConnected")]
              /\ pc' = [pc EXCEPT ![t] = "releasing"]
              /\ UNCHANGED connected
         ELSE /\ connected' = TRUE
              /\ pc' = [pc EXCEPT ![t] = "in_session"]
              /\ UNCHANGED outcome
    /\ UNCHANGED <<instanceOf, variables, locked, waiters, result, attempts>>

SessionExecuteRetrying(t) ==
    /\ pc[t] = "in_session"
    /\ attempts' = [attempts EXCEPT ![t] = @ + 2]
    /\ pc' = [pc EXCEPT ![t] = "executing"]
    /\ UNCHANGED <<instanceOf, variables, locked, waiters, connected,
                   outcome, result>>

\* `await session.execute(query, variable_values=variables)` is issued.
SessionExecute(t) ==
    /\ pc[t] = "in_session"
    /\ attempts' = [attempts EXCEPT ![t] = @ + 1]
    /\ pc' = [pc EXCEPT ![t] = "executing"]
    /\ UNCHANGED <<instanceOf, variables, locked, waiters, connected,
                   outcome, result>>

\* The upstream call answers.
ExecuteReturns(t) ==
    /\ pc[t] = "executing"
    /\ outcome' = [outcome EXCEPT ![t] = UpstreamResponse(variables[t])]
    /\ pc' = [pc EXCEPT ![t] = "exiting"]
    /\ UNCHANGED <<instanceOf, variables, locked, waiters, connected,
                   result, attempts>>

\* The upstream call fails (network, GraphQL validation, auth).
ExecuteRaises(t) ==
    /\ pc[t] = "executing"
    /\ \E e \in UpstreamErrors : outcome' = [outcome EXCEPT ![t] = Raised(e)]
    /\ pc' = [pc EXCEPT ![t] = "exiting"]
    /\ UNCHANGED <<instanceOf, variables, locked, waiters, connected,
                   result, attempts>>

\* A session that is closed only when the request returned.
ExitSessionOnReturnOnly(t) ==
    /\ pc[t] = "exiting"
    /\ connected' = (outcome[t].kind = "raised")
    /\ pc' = [pc EXCEPT ![t] = "releasing"]
    /\ UNCHANGED <<instanceOf, variables, locked, waiters, outcome, result,
                   attempts>>

\* Leaving `async with self.client`: the session is closed, on return and on
\* raise alike.
ExitSession(t) ==
    /\ pc[t] = "exiting"
    /\ connected' = FALSE
    /\ pc' = [pc EXCEPT ![t] = "releasing"]
    /\ UNCHANGED <<instanceOf, variables, locked, waiters, outcome, result,
                   attempts>>

ReleaseLockWakingLast(t) ==
    /\ pc[t] = "releasing"
    /\ locked' = [locked EXCEPT ![instanceOf[t]] = FALSE]
    /\ result' = [result EXCEPT ![t] = outcome[t]]
    /\ pc' = [u \in Tasks |->
                 IF u = t THEN "done"
                 ELSE IF /\ waiters[instanceOf[t]] # <<>>
                         /\ u = waiters[instanceOf[t]][Len(waiters[instanceOf[t]])]
                         /\ pc[u] = "waiting"
                      THEN "woken"
                      ELSE pc[u]]
    /\ UNCHANGED <<instanceOf, variables, waiters, connected, outcome,
                   attempts>>

\* Leaving `async with self._client_lock`: release wakes the first waiter;
\* the value or the exception then reaches the caller unchanged.
ReleaseLock(t) ==
    /\ pc[t] = "releasing"
    /\ locked' = [locked EXCEPT ![instanceOf[t]] = FALSE]
    /\ result' = [result EXCEPT ![t] = outcome[t]]
    /\ pc' = [u \in Tasks |->
                 IF u = t THEN "done"
                 ELSE IF /\ waiters[instanceOf[t]] # <<>>
                         /\ u = Head(waiters[instanceOf[t]])
                         /\ pc[u] = "waiting"
                      THEN "woken"
                      ELSE pc[u]]
    /\ UNCHANGED <<instanceOf, variables, waiters, connected, outcome,
                   attempts>>

execute_query(t) ==
    \/ AcquireLock(t)
    \/ WaitForLock(t)
    \/ ResumeWithLock(t)
    \/ EnterSession(t)
    \/ SessionExecute(t)
    \/ ExecuteReturns(t)
    \/ ExecuteRaises(t)
    \/ ExitSession(t)
    \/ ReleaseLock(t)

AdapterNext ==
    /\ \E t \in Tasks : execute_query(t)
    /\ UNCHANGED <<serviceVars, toolVars, constructionVars>>

\* Concurrent calls through one BasePipefyClient instance.
InitAdapter ==
    /\ AdapterInit
    /\ ServiceIdle
    /\ ToolIdle
    /\ NotConstructing
    /\ \E a \in Instances : instanceOf = [t \in Tasks |-> a]

SpecAdapter == InitAdapter /\ [][AdapterNext]_vars

\* The event loop runs every coroutine that can take a step, and every
\* upstream request terminates, by returning or by raising.
FairAdapter ==
    SpecAdapter /\ \A t \in Tasks : WF_adapterVars(execute_query(t))

\* PipeService(client) and CardService(client) built on one gql client:
\* get_pipe and friends run on pipe_service, get_card and friends on
\* card_service.
InitServices ==
    /\ AdapterInit
    /\ ServiceIdle
    /\ ToolIdle
    /\ NotConstructing
    /\ instanceOf \in [Tasks -> Instances]

SpecServices == InitServices /\ [][AdapterNext]_vars

\* ---------------------------------------------------------- formatters

\* One entry of the dict branch of convert_fields_to_array.
FieldValueInput(field_id, value) ==
    PyDict(<<KV("field_id", PyStr(field_id)), KV("field_value", value),
             KV("generated_by_ai", PyTrue)>>)

\* One item of the list branch: `{**item, "generated_by_ai": True}` only
\* when item is a dict without the key.
NormalizedItemOverwriting(item) ==
    IF item.tag = "dict"
    THEN PyDict(SelectSeq(item.items, LAMBDA e : e.k # "generated_by_ai")
                    \o <<KV("generated_by_ai", PyTrue)>>)
    ELSE item

NormalizedItem(item) ==
    IF item.tag = "dict" /\ ~DictHas(item, "generated_by_ai")
    THEN PyDict(item.items \o <<KV("generated_by_ai", PyTrue)>>)
    ELSE item

convert_fields_to_array(fields) ==
    IF fields.tag = "dict"
    THEN PyList([i \in 1..Len(fields.items) |->
                    FieldValueInput(fields.items[i].k, fields.items[i].v)])
    ELSE IF fields.tag = "list"
    THEN PyList([i \in 1..Len(fields.items) |->
                    NormalizedItem(fields.items[i])])
    ELSE IF Truthy(fields) THEN PyList(<<fields>>) ELSE PyList(<<>>)

\* The operation sent for one entry:
\* str(v.get("operation", "REPLACE")).upper()
OperationOf(v) == Upper(DictGet(v, "operation", PyStr("REPLACE")).atom)

\* One formatted entry of convert_values_to_camel_case.
FormattedValue(v) ==
    PyDict(<<KV("fieldId", DictAt(v, "field_id")),
             KV("value", DictAt(v, "value")),
             KV("operation", PyStr(OperationOf(v))),
             KV("generatedByAi", PyTrue)>>)

\* The entries the loop of convert_values_to_camel_case rejects.
MissingKey(v) == ~DictHas(v, "field_id") \/ ~DictHas(v, "value")

\* The ValueError of the first rejected entry i (1-based here, 0-based in
\* the message).
MissingKeyError(values, i) ==
    "Value at index " \o ToString(i - 1) \o " is missing required '"
        \o (IF ~DictHas(values[i], "field_id") THEN "field_id" ELSE "value")
        \o "' key"

NoError == ""

\* A conversion that leaves out the entries it cannot format.
ConvertSkippingInvalid(values) ==
    LET good == SelectSeq(values, LAMBDA v : ~MissingKey(v))
    IN  [error |-> NoError,
         formatted |-> [i \in 1..Len(good) |-> FormattedValue(good[i])]]

\* convert_values_to_camel_case: the formatted list, or the ValueError
\* raised at the first entry lacking field_id or value.
convert_values_to_camel_case(values) ==
    LET bad == {i \in 1..Len(values) : MissingKey(values[i])}
    IN  IF bad # {}
        THEN [error |-> MissingKeyError(values,
                            CHOOSE i \in bad : \A j \in bad : i <= j),
              formatted |-> <<>>]
        ELSE [error |-> NoError,
              formatted |-> [i \in 1..Len(values) |-> FormattedValue(values[i])]]

\* ------------------------------------------------------------ services

\* An exception object: its type and str().
PyException(type, message) == [tag |-> type, atom |-> message, items |-> <<>>]

Request(doc, vs) == [doc |-> doc, variables |-> vs]

\* What a service method does up to its `await self.execute_query(...)`:
\* the exception it raises before that, or the requests it issues.
Plan(error, reqs) == [error |-> error, requests |-> reqs]

\* CardService.create_card
create_card(pipe_id, fields) ==
    Plan(NoError,
         <<Request("CREATE_CARD_MUTATION",
                   PyDict(<<KV("pipe_id", PyInt(pipe_id)),
                            KV("fields", convert_fields_to_array(fields))>>))>>)

\* `if x: input_data[key] = x`
OptionalInputIfTruthy(key, x) == IF Truthy(x) THEN <<KV(key, x)>> ELSE <<>>

\* `if x is not None: input_data[key] = x`
OptionalInput(key, x) == IF x # PyNone THEN <<KV(key, x)>> ELSE <<>>

\* CardService._execute_update_card
execute_update_card(card_id, title, assignee_ids, label_ids, due_date) ==
    Request("UPDATE_CARD_MUTATION",
            PyDict(<<KV("input",
                        PyDict(<<KV("id", PyInt(card_id))>>
                               \o OptionalInput("title", title)
                               \o OptionalInput("assignee_ids", assignee_ids)
                               \o OptionalInput("label_ids", label_ids)
                               \o OptionalInput("due_date", due_date)))>>))

\* CardService._execute_update_fields_values
execute_update_fields_values(card_id, values) ==
    LET c == convert_values_to_camel_case(values.items)
    IN  IF c.error # NoError
        THEN Plan(c.error, <<>>)
        ELSE Plan(NoError,
                  <<Request("UPDATE_FIELDS_VALUES_MUTATION",
                            PyDict(<<KV("input",
                                        PyDict(<<KV("nodeId", PyInt(card_id)),
                                                 KV("values",
                                                    PyList(c.formatted))>>))>>))>>)

\* CardService.update_card: `if field_updates:` selects the mutation.
UpdateCardBothMutations(a) ==
    IF a.field_updates # PyNone
    THEN LET p == execute_update_fields_values(a.id, a.field_updates)
         IN  Plan(p.error,
                  IF p.error # NoError THEN <<>>
                  ELSE p.requests
                         \o <<execute_update_card(a.id, a.title, a.assignee_ids,
                                                  a.label_ids, a.due_date)>>)
    ELSE Plan(NoError,
              <<execute_update_card(a.id, a.title, a.assignee_ids,
                                    a.label_ids, a.due_date)>>)

\* An update_card that sends the attributes along with the field values.
UpdateCardMergingAttributes(a) ==
    IF Truthy(a.field_updates)
    THEN LET p == execute_update_fields_values(a.id, a.field_updates)
         IN  IF p.error # NoError THEN p
             ELSE Plan(NoError,
                       <<Request(p.requests[1].doc,
                                 PyDict(<<KV("input",
                                     PyDict(DictAt(p.requests[1].variables,
                                                   "input").items
                                            \o OptionalInput("title", a.title)
                                            \o OptionalInput("assignee_ids",
                                                             a.assignee_ids)
                                            \o OptionalInput("label_ids",
                                                             a.label_ids)
                                            \o OptionalInput("due_date",
                                                             a.due_date)))>>))>>)
    ELSE Plan(NoError,
              <<execute_update_card(a.id, a.title, a.assignee_ids,
                                    a.label_ids, a.due_date)>>)

update_card(a) ==
    IF Truthy(a.field_updates)
    THEN execute_update_fields_values(a.id, a.field_updates)
    ELSE Plan(NoError,
              <<execute_update_card(a.id, a.title, a.assignee_ids,
                                    a.label_ids, a.due_date)>>)

\* CardService.get_card
get_card(card_id, include_fields) ==
    Plan(NoError,
         <<Request("GET_CARD_QUERY",
                   PyDict(<<KV("card_id", PyInt(card_id)),
                            KV("includeFields",
                               IF include_fields THEN PyTrue ELSE PyFalse)>>))>>)

NoStartFormFieldsMessage == "This pipe has no start form fields configured."
NoRequiredFieldsMessage == "This pipe has no required fields in the start form."

EmptyFieldsPayload(message) ==
    PyDict(<<KV("message", PyStr(message)),
             KV("start_form_fields", PyList(<<>>))>>)

RequiredIgnored(field) == TRUE

\* `field.get("required")`
IsRequired(field) == Truthy(DictGet(field, "required", PyNone))

\* PipeService.get_start_form_fields after its await: the shaping of the
\* API result.  `result.get("pipe", {})` on a null pipe raises.
get_start_form_fields_result(resp, required_only) ==
    LET pipe == DictGet(resp, "pipe", PyDict(<<>>))
        fields == DictGet(pipe, "start_form_fields", PyList(<<>>))
        required == SelectSeq(fields.items, IsRequired)
    IN  IF pipe.tag # "dict"
        THEN PyException("AttributeError",
                         "'NoneType' object has no attribute 'get'")
        ELSE IF ~Truthy(fields)
        THEN EmptyFieldsPayload(NoStartFormFieldsMessage)
        ELSE IF required_only
        THEN IF required = <<>>
             THEN EmptyFieldsPayload(NoRequiredFieldsMessage)
             ELSE PyDict(<<KV("start_form_fields", PyList(required))>>)
        ELSE PyDict(<<KV("start_form_fields", fields)>>)

\* ------------------------------------------------------- search_pipes

\* fuzz.WRatio(pipe_name, pipe_display_name) in hundredths.  The scores at
\* or above the default threshold are those of the service's tests; a pair
\* the tests find below it has a low score, and an empty display name
\* scores 0.
Similarity(pipe_name, pipe_display_name) ==
    CASE pipe_display_name = "" -> 0
      [] pipe_name = "pipe" /\ pipe_display_name = "Custaudio pipe" -> 9000
      [] pipe_name = "pipe" /\ pipe_display_name = "Drico pipe" -> 9000
      [] pipe_name = "custaudio" /\ pipe_display_name = "Custaudio" -> 8889
      [] pipe_name = "custaudio" /\ pipe_display_name = "Custaudio pipe" -> 8000
      [] OTHER -> 2500

\* fuzz.WRatio(..., score_cutoff=c): a score below the cutoff comes back as 0
WRatio(pipe_name, pipe_display_name, score_cutoff) ==
    IF Similarity(pipe_name, pipe_display_name) >= score_cutoff * 100
    THEN Similarity(pipe_name, pipe_display_name)
    ELSE 0

\* round(score, 1), in tenths
Round1(score) == (score + 5) \div 10

\* `if score:`
ScoreKept(score) == score # 0

PipeDisplayName(pipe) == DictGet(pipe, "name", PyStr("")).atom

\* the (score, pipe) pairs appended to matching_pipes for one organization
RECURSIVE MatchingPipes(_, _, _)
MatchingPipes(pipes, pipe_name, match_threshold) ==
    IF pipes = <<>> THEN <<>>
    ELSE LET score == WRatio(pipe_name, PipeDisplayName(Head(pipes)),
                             match_threshold)
             rest == MatchingPipes(Tail(pipes), pipe_name, match_threshold)
         IN  IF ScoreKept(score)
             THEN <<[score |-> score, pipe |-> Head(pipes)]>> \o rest
             ELSE rest

Remove(q, i) == SubSeq(q, 1, i - 1) \o SubSeq(q, i + 1, Len(q))

\* matching_pipes.sort(key=lambda x: x[0], reverse=True): descending, and
\* pairs of equal score keep their order
RECURSIVE SortByScore(_)
SortByScore(q) ==
    IF q = <<>> THEN <<>>
    ELSE LET best == CHOOSE i \in 1..Len(q) :
                        /\ \A j \in 1..Len(q) : q[j].score <= q[i].score
                        /\ \A j \in 1..(i - 1) : q[j].score < q[i].score
         IN  <<q[best]>> \o SortByScore(Remove(q, best))

\* {**pipe, "match_score": round(score, 1)}
WithMatchScore(m) ==
    LET scored == PyFloat(Round1(m.score))
    IN  IF DictHas(m.pipe, "match_score")
        THEN PyDict([i \in 1..Len(m.pipe.items) |->
                        IF m.pipe.items[i].k = "match_score"
                        THEN KV("match_score", scored)
                        ELSE m.pipe.items[i]])
        ELSE PyDict(m.pipe.items \o <<KV("match_score", scored)>>)

RECURSIVE FilteredOrgs(_, _, _)
FilteredOrgs(organizations, pipe_name, match_threshold) ==
    IF organizations = <<>> THEN <<>>
    ELSE LET org == Head(organizations)
             matching_pipes ==
                 SortByScore(MatchingPipes(DictGet(org, "pipes", PyList(<<>>)).items,
                                           pipe_name, match_threshold))
             rest == FilteredOrgs(Tail(organizations), pipe_name, match_threshold)
         IN  IF matching_pipes # <<>>
             THEN <<PyDict(<<KV("id", DictGet(org, "id", PyNone)),
                             KV("name", DictGet(org, "name", PyNone)),
                             KV("pipes",
                                PyList([i \in 1..Len(matching_pipes) |->
                                           WithMatchScore(matching_pipes[i])]))>>)>>
                  \o rest
             ELSE rest

\* PipeService.search_pipes after its await
search_pipes_result(resp, pipe_name, match_threshold) ==
    LET organizations == DictGet(resp, "organizations", PyList(<<>>))
    IN  IF ~Truthy(pipe_name)
        THEN PyDict(<<KV("organizations", organizations)>>)
        ELSE PyDict(<<KV("organizations",
                         PyList(FilteredOrgs(organizations.items, pipe_name.atom,
                                             match_threshold)))>>)

IsException(v) == v.tag \notin {"none", "str", "int", "bool", "list", "dict"}

\* ------------------------------------------------- inputs and responses

SeqsUpTo(S, n) == UNION {[1..k -> S] : k \in 0..n}

Ids == {1, 2}

FieldKeys == {"a", "b"}
FieldVals == {PyInt(1), PyNone}

\* dicts of up to MaxFields distinct keys, in every insertion order
FieldDicts ==
    {PyDict(q) : q \in {r \in SeqsUpTo([k : FieldKeys, v : FieldVals], MaxFields) :
                           \A i, j \in 1..Len(r) : i # j => r[i].k # r[j].k}}

FieldItem == <<KV("field_id", PyStr("a")), KV("field_value", PyInt(1))>>

ListItems ==
    {PyDict(FieldItem),
     PyDict(<<KV("generated_by_ai", PyTrue)>> \o FieldItem),
     PyDict(<<KV("generated_by_ai", PyFalse)>> \o FieldItem),
     PyStr("legacy")}

FieldLists == {PyList(q) : q \in SeqsUpTo(ListItems, MaxFields)}

Scalars == {PyNone, PyStr(""), PyStr("x"), PyInt(0), PyInt(7), PyFalse, PyTrue}

FieldsInputs == FieldDicts \cup FieldLists \cup Scalars

UpdateEntries ==
    {PyDict(<<KV("field_id", PyStr("status")), KV("value", PyStr("done"))>>),
     PyDict(<<KV("field_id", PyStr("tags")), KV("value", PyStr("urgent")),
              KV("operation", PyStr("add"))>>),
     PyDict(<<KV("field_id", PyStr("tags")), KV("value", PyStr("old")),
              KV("operation", PyStr("Remove"))>>),
     PyDict(<<KV("field_id", PyStr("status")), KV("value", PyStr("done")),
              KV("operation", PyStr(""))>>),
     PyDict(<<KV("field_id", PyStr("status")), KV("value", PyNone),
              KV("operation", PyNone)>>),
     PyDict(<<KV("value", PyStr("done"))>>),
     PyDict(<<KV("field_id", PyStr("status"))>>),
     PyDict(<<KV("operation", PyStr("ADD"))>>)}

FieldUpdatesInputs ==
    {PyNone} \cup {PyList(q) : q \in SeqsUpTo(UpdateEntries, MaxUpdates)}

TitleInputs == {PyNone, PyStr(""), PyStr("t")}
AssigneeInputs == {PyNone, PyList(<<>>), PyList(<<PyInt(7)>>)}
LabelInputs == {PyNone, PyList(<<PyInt(3)>>)}
DueDateInputs == {PyNone, PyStr("2025-01-01")}

CreateCardResponses ==
    {PyDict(<<KV("createCard",
                 PyDict(<<KV("card", PyDict(<<KV("id", PyStr("555"))>>))>>))>>),
     PyDict(<<KV("createCard", PyDict(<<KV("card", PyDict(<<>>))>>))>>),
     PyDict(<<>>)}

UpdateCardResponses ==
    {PyDict(<<KV("updateCard", PyDict(<<KV("clientMutationId", PyNone)>>))>>),
     PyDict(<<KV("updateFieldsValues", PyDict(<<KV("success", PyTrue)>>))>>)}

FieldDefinitions ==
    {PyDict(<<KV("id", PyStr(i))>> \o r) :
        i \in {"title", "priority"},
        r \in {<<KV("required", PyTrue)>>, <<KV("required", PyFalse)>>, <<>>}}

StartFormResponses ==
    {PyDict(<<KV("pipe", PyDict(<<KV("start_form_fields", PyList(q))>>))>>) :
        q \in SeqsUpTo(FieldDefinitions, MaxFields)}
    \cup {PyDict(<<>>),
          PyDict(<<KV("pipe", PyNone)>>),
          PyDict(<<KV("pipe", PyDict(<<>>))>>),
          PyDict(<<KV("pipe", PyDict(<<KV("start_form_fields", PyNone)>>))>>)}

NamedPipe(id, name) == PyDict(<<KV("id", PyStr(id)), KV("name", PyStr(name))>>)

PipePool ==
    {NamedPipe("101", "Custaudio"),
     NamedPipe("102", "Custaudio pipe"),
     NamedPipe("103", "Drico pipe"),
     PyDict(<<KV("id", PyStr("104"))>>)}

\* the organizations an answer can hold at position i
OrganizationsAt(i) ==
    {PyDict(<<KV("id", PyStr(ToString(i))),
              KV("name", PyStr("Org " \o ToString(i))),
              KV("pipes", PyList(ps))>>) : ps \in SeqsUpTo(PipePool, MaxPipes)}
    \cup {PyDict(<<KV("id", PyStr(ToString(i))),
                   KV("name", PyStr("Org " \o ToString(i)))>>)}

SearchPipesResponses ==
    {PyDict(<<KV("organizations", PyList(q))>>) :
        q \in UNION {{r \in [1..k -> UNION {OrganizationsAt(i) : i \in 1..MaxOrgs}] :
                         \A i \in 1..k : r[i] \in OrganizationsAt(i)} :
                     k \in 0..MaxOrgs}}
    \cup {PyDict(<<>>)}

PipeNameInputs == {PyNone, PyStr(""), PyStr("pipe"), PyStr("custaudio")}

MatchThresholdInputs == {0, 70, 90, 101}

\* ----------------------------------------------- service invocations

\* A service that remembers what it already asked and does not ask again.
BeginMemoised(op, args, plan) ==
    /\ svc_op' = op
    /\ svc_args' = args
    /\ requests' = IF \E i \in 1..Len(requests) : <<requests[i]>> = plan.requests
                      THEN requests
                      ELSE requests \o plan.requests
    /\ IF plan.error # NoError
         THEN /\ svc_pc' = "raised"
              /\ svc_ret' = PyException("ValueError", plan.error)
         ELSE /\ svc_pc' = "awaiting"
              /\ svc_ret' = PyNone
    /\ svc_resp' = PyNone

\* The method runs up to its await: a validation error leaves it at once,
\* otherwise its requests are handed to execute_query.
Begin(op, args, plan) ==
    /\ svc_op' = op
    /\ svc_args' = args
    /\ requests' = requests \o plan.requests
    /\ IF plan.error # NoError
         THEN /\ svc_pc' = "raised"
              /\ svc_ret' = PyException("ValueError", plan.error)
         ELSE /\ svc_pc' = "awaiting"
              /\ svc_ret' = PyNone
    /\ svc_resp' = PyNone

\* The first call of a behaviour, on a service that has done nothing yet.
Invoke(op, args, plan) ==
    /\ svc_pc = "idle"
    /\ Begin(op, args, plan)

CardService_create_card ==
    /\ svc_pc = "idle"
    /\ \E pipe_id \in Ids, fields \in FieldsInputs :
        Invoke("create_card",
               [NoArgs EXCEPT !.id = pipe_id, !.fields = fields],
               create_card(pipe_id, fields))

CardService_update_card ==
    /\ svc_pc = "idle"
    /\ \E card_id \in Ids, title \in TitleInputs, assignee_ids \in AssigneeInputs,
       label_ids \in LabelInputs, due_date \in DueDateInputs,
       field_updates \in FieldUpdatesInputs :
        LET a == [NoArgs EXCEPT !.id = card_id, !.title = title,
                                !.assignee_ids = assignee_ids,
                                !.label_ids = label_ids,
                                !.due_date = due_date,
                                !.field_updates = field_updates]
        IN  Invoke("update_card", a, update_card(a))

CardService_get_card ==
    /\ svc_pc = "idle"
    /\ \E card_id \in Ids, include_fields \in BOOLEAN :
        Invoke("get_card",
               [NoArgs EXCEPT !.id = card_id, !.include_fields = include_fields],
               get_card(card_id, include_fields))

PipeService_get_start_form_fields ==
    /\ svc_pc = "idle"
    /\ \E pipe_id \in Ids, required_only \in BOOLEAN :
        Invoke("get_start_form_fields",
               [NoArgs EXCEPT !.id = pipe_id, !.required_only = required_only],
               Plan(NoError,
                    <<Request("GET_START_FORM_FIELDS_QUERY",
                              PyDict(<<KV("pipe_id", PyInt(pipe_id))>>))>>))

PipeService_search_pipes ==
    /\ svc_pc = "idle"
    /\ \E pipe_name \in PipeNameInputs, match_threshold \in MatchThresholdInputs :
        Invoke("search_pipes",
               [NoArgs EXCEPT !.pipe_name = pipe_name,
                              !.match_threshold = match_threshold],
               Plan(NoError, <<Request("SEARCH_PIPES_QUERY", PyDict(<<>>))>>))

\* execute_query answers and the method returns (or raises while shaping).
Resume(op, resp, ret) ==
    /\ svc_pc = "awaiting"
    /\ svc_op = op
    /\ svc_resp' = resp
    /\ svc_ret' = ret
    /\ svc_pc' = IF IsException(ret) THEN "raised" ELSE "returned"
    /\ UNCHANGED <<svc_op, svc_args, requests>>

create_card_returns ==
    /\ svc_pc = "awaiting" /\ svc_op = "create_card"
    /\ \E resp \in CreateCardResponses : Resume("create_card", resp, resp)

update_card_returns ==
    /\ svc_pc = "awaiting" /\ svc_op = "update_card"
    /\ \E resp \in UpdateCardResponses : Resume("update_card", resp, resp)

\* what the API answers to the card query
CardResponses ==
    {PyDict(<<KV("card", PyDict(<<KV("id", PyStr("1")),
                                  KV("title", PyStr("Test Card"))>>))>>),
     PyDict(<<KV("card", PyNone)>>)}

get_card_returns ==
    /\ svc_pc = "awaiting" /\ svc_op = "get_card"
    /\ \E resp \in CardResponses : Resume("get_card", resp, resp)

get_start_form_fields_returns ==
    /\ svc_pc = "awaiting" /\ svc_op = "get_start_form_fields"
    /\ \E resp \in StartFormResponses :
        Resume("get_start_form_fields", resp,
               get_start_form_fields_result(resp, svc_args.required_only))

search_pipes_returns ==
    /\ svc_pc = "awaiting" /\ svc_op = "search_pipes"
    /\ \E resp \in SearchPipesResponses :
        Resume("search_pipes", resp,
               search_pipes_result(resp, svc_args.pipe_name,
                                   svc_args.match_threshold))

\* execute_query raises: no service method catches it.
execute_query_raises ==
    /\ svc_pc = "awaiting"
    /\ \E e \in UpstreamErrors : svc_ret' = PyException(e, "upstream failure")
    /\ svc_pc' = "raised"
    /\ UNCHANGED <<svc_op, svc_args, requests, svc_resp>>

ServiceNext ==
    /\ \/ CardService_create_card
       \/ CardService_update_card
       \/ CardService_get_card
       \/ PipeService_get_start_form_fields
       \/ PipeService_search_pipes
       \/ create_card_returns
       \/ get_card_returns
       \/ update_card_returns
       \/ get_start_form_fields_returns
       \/ search_pipes_returns
       \/ execute_query_raises
    /\ UNCHANGED <<adapterVars, toolVars, constructionVars>>

AdapterIdle ==
    /\ AdapterInit
    /\ variables = [t \in Tasks |-> 101]
    /\ instanceOf = [t \in Tasks |-> "card_service"]

InitService == ServiceIdle /\ AdapterIdle /\ ToolIdle /\ NotConstructing

SpecService == InitService /\ [][ServiceNext]_vars

\* ------------------------------------------- the same call, made again

\* How many requests one behaviour may issue.
MaxCalls == 2

\* The requests of one method for its arguments.
ServicePlan(op, a) ==
    CASE op = "create_card" -> create_card(a.id, a.fields)
      [] op = "update_card" -> update_card(a)
      [] op = "get_card" -> get_card(a.id, a.include_fields)
      [] op = "get_start_form_fields" ->
            Plan(NoError,
                 <<Request("GET_START_FORM_FIELDS_QUERY",
                           PyDict(<<KV("pipe_id", PyInt(a.id))>>))>>)
      [] op = "search_pipes" ->
            Plan(NoError, <<Request("SEARCH_PIPES_QUERY", PyDict(<<>>))>>)

\* The caller invokes the method it has just left once more, on the same
\* service object and with the same arguments.
CallAgain ==
    /\ svc_pc \in {"returned", "raised"}
    /\ Len(requests) < MaxCalls
    /\ Begin(svc_op, svc_args, ServicePlan(svc_op, svc_args))

RepeatedNext ==
    \/ ServiceNext
    \/ CallAgain /\ UNCHANGED <<adapterVars, toolVars, constructionVars>>

SpecRepeated == InitService /\ [][RepeatedNext]_vars

\* ------------------------------------------------ PipefyClient (client.py)

\* What a PipefyClient method does up to its session.execute: the exception
\* it raises before that, or the variables it sends.
ClientPlan(exc, reqs) == [raised |-> exc, requests |-> reqs]

\* PipefyClient.get_card(card_id)
client_get_card(card_id) ==
    ClientPlan(PyNone,
               <<Request("card", PyDict(<<KV("card_id", PyInt(card_id))>>))>>)

\* PipefyClient.create_card(pipe_id, fields): the dict, list and other
\* branches build the list convert_fields_to_array builds
client_create_card(pipe_id, fields) ==
    ClientPlan(PyNone,
               <<Request("createCard",
                         PyDict(<<KV("pipe_id", PyInt(pipe_id)),
                                  KV("fields", convert_fields_to_array(fields))>>))>>)

\* PipefyClient.get_start_form_fields(pipe_id, required_only)
client_get_start_form_fields(pipe_id) ==
    ClientPlan(PyNone,
               <<Request("start_form_fields",
                         PyDict(<<KV("pipe_id", PyInt(pipe_id))>>))>>)

UnexpectedKeyword(name) ==
    PyException("TypeError",
                "PipefyClient.update_card() got an unexpected keyword argument '"
                \o name \o "'")

\* PipefyClient.update_card(card_id, title, assignee_ids, label_ids,
\* due_date, fields, values) called with the keywords of the service
\* method: it has no field_updates parameter; without it, fields and values
\* are None and _execute_update_card runs
client_update_card(a) ==
    IF a.field_updates # PyNone
    THEN ClientPlan(UnexpectedKeyword("field_updates"), <<>>)
    ELSE ClientPlan(PyNone,
                    <<execute_update_card(a.id, a.title, a.assignee_ids,
                                          a.label_ids, a.due_date)>>)

\* the PipefyClient method of the same name as the service method
PipefyClient(op, a) ==
    IF op = "get_card" THEN client_get_card(a.id)
    ELSE IF op = "create_card" THEN client_create_card(a.id, a.fields)
    ELSE IF op = "get_start_form_fields" THEN client_get_start_form_fields(a.id)
    ELSE client_update_card(a)

\* what the PipefyClient method returns for the API's answer
PipefyClient_returns(op, resp, a) ==
    IF op = "get_start_form_fields"
    THEN get_start_form_fields_result(resp, a.required_only)
    ELSE resp

\* ---------------------------------------- constructing the adapter

\* PipefySettings(graphql_url=..., oauth_url=..., oauth_client=..., oauth_secret=...)
PipefySettings(graphql_url, oauth_url, oauth_client, oauth_secret) ==
    PyDict(<<KV("graphql_url", graphql_url), KV("oauth_url", oauth_url),
             KV("oauth_client", oauth_client), KV("oauth_secret", oauth_secret)>>)

SettingsInputs ==
    {PyNone}
    \cup {PipefySettings(g, u, c, k) :
            g \in {PyNone, PyStr("https://api.pipefy.com/graphql")},
            u \in {PyNone, PyStr("https://auth.pipefy.com/oauth/token")},
            c \in {PyNone, PyStr("client_id")},
            k \in {PyNone, PyStr("client_secret")}}

SchemaInputs == {PyNone, PyStr(""), PyStr("some_schema")}

\* a gql.Client built by the caller, and a lock built by the caller
InjectedClient == [tag |-> "Client", atom |-> "injected", items |-> <<>>]

InjectedLock == [tag |-> "Lock", atom |-> "injected", items |-> <<>>]

ClientInputs == {PyNone, InjectedClient}

LockInputs == {PyNone, InjectedLock}

\* HTTPXAsyncTransport(url=..., auth=OAuth2ClientCredentials(...))
HTTPXAsyncTransport(settings) ==
    [tag |-> "HTTPXAsyncTransport", atom |-> DictAt(settings, "graphql_url").atom,
     items |-> <<DictAt(settings, "oauth_url"), DictAt(settings, "oauth_client"),
                 DictAt(settings, "oauth_secret")>>]

\* Client(transport=transport, schema=schema) when the schema is truthy,
\* else Client(transport=transport, fetch_schema_from_transport=True)
Client(transport, schema) ==
    [tag |-> "Client",
     atom |-> IF Truthy(schema) THEN schema.atom ELSE "fetch_schema_from_transport",
     items |-> <<transport>>]

Created(client, transports) ==
    [client |-> client, transports |-> transports, error |-> PyNone]

NotCreated(message) ==
    [client |-> PyNone, transports |-> <<>>,
     error |-> PyException("ValueError", message)]

CreateClientSkippingSecret(settings, schema) ==
    IF settings = PyNone
    THEN NotCreated("Settings must be provided to create a GraphQL client.")
    ELSE IF DictAt(settings, "graphql_url") = PyNone
    THEN NotCreated("GraphQL URL must be provided in settings.")
    ELSE IF DictAt(settings, "oauth_url") = PyNone
    THEN NotCreated("OAuth URL must be provided in settings.")
    ELSE IF DictAt(settings, "oauth_client") = PyNone
    THEN NotCreated("OAuth client ID must be provided in settings.")
    ELSE Created(Client(HTTPXAsyncTransport(settings), schema),
                 <<HTTPXAsyncTransport(settings)>>)

\* _create_client: the four settings checks, then the transport, then the
\* client
create_client(settings, schema) ==
    IF settings = PyNone
    THEN NotCreated("Settings must be provided to create a GraphQL client.")
    ELSE IF DictAt(settings, "graphql_url") = PyNone
    THEN NotCreated("GraphQL URL must be provided in settings.")
    ELSE IF DictAt(settings, "oauth_url") = PyNone
    THEN NotCreated("OAuth URL must be provided in settings.")
    ELSE IF DictAt(settings, "oauth_client") = PyNone
    THEN NotCreated("OAuth client ID must be provided in settings.")
    ELSE IF DictAt(settings, "oauth_secret") = PyNone
    THEN NotCreated("OAuth client secret must be provided in settings.")
    ELSE Created(Client(HTTPXAsyncTransport(settings), schema),
                 <<HTTPXAsyncTransport(settings)>>)

\* `client or self._create_client(schema)`: a gql Client defines neither
\* __bool__ nor __len__, so every client object is truthy
ClientOrCreate(settings, schema, client) ==
    IF client # PyNone THEN Created(client, <<>>)
    ELSE create_client(settings, schema)

\* `client_lock if client_lock is not None else asyncio.Lock()`
OwnLock == [tag |-> "Lock", atom |-> "own", items |-> <<>>]

LockOrNew(client_lock) == IF client_lock # PyNone THEN client_lock ELSE OwnLock

\* the object __init__ leaves behind
BasePipefyClient(settings, client, client_lock) ==
    [tag |-> "BasePipefyClient", atom |-> client_lock.atom,
     items |-> <<settings, client>>]

BothSchemaAndClient ==
    PyException("ValueError",
                "Cannot specify both 'schema' and 'client'. "
                \o "When reusing an existing client, its schema is already configured.")

\* BasePipefyClient(settings=..., schema=..., client=..., client_lock=...)
BasePipefyClient_init ==
    /\ construction.pc = "idle"
    /\ \E settings \in SettingsInputs, schema \in SchemaInputs,
          client \in ClientInputs, client_lock \in LockInputs :
        LET made == ClientOrCreate(settings, schema, client)
            args == [construction EXCEPT !.settings = settings,
                                         !.schema = schema,
                                         !.client = client,
                                         !.client_lock = client_lock]
        IN  IF schema # PyNone /\ client # PyNone
            THEN construction' = [args EXCEPT !.pc = "raised",
                                              !.error = BothSchemaAndClient]
            ELSE IF made.error # PyNone
            THEN construction' = [args EXCEPT !.pc = "raised",
                                              !.error = made.error]
            ELSE construction' =
                    [args EXCEPT !.pc = "returned",
                                 !.transports = made.transports,
                                 !.self = BasePipefyClient(settings, made.client,
                                                           LockOrNew(client_lock))]

ConstructionNext ==
    /\ BasePipefyClient_init
    /\ UNCHANGED <<adapterVars, serviceVars, toolVars>>

InitConstruction == NotConstructing /\ AdapterIdle /\ ServiceIdle /\ ToolIdle

SpecConstruction == InitConstruction /\ [][ConstructionNext]_vars

\* -------------------------------------------------------- tool helpers

\* An exception carrying a gql `errors` list.
PyExceptionWith(type, message, errors) ==
    [tag |-> type, atom |-> message, items |-> errors]

GraphQLError(message, code) ==
    PyDict(<<KV("message", PyStr(message)),
             KV("extensions", PyDict(<<KV("code", PyStr(code))>>))>>)

\* build_delete_card_error_payload
build_delete_card_error_payload(message) ==
    PyDict(<<KV("success", PyFalse), KV("error", PyStr(message))>>)

\* build_delete_card_success_payload
build_delete_card_success_payload(card_id, card_title, pipe_name) ==
    PyDict(<<KV("success", PyTrue),
             KV("card_id", PyInt(card_id)),
             KV("card_title", PyStr(card_title)),
             KV("pipe_name", PyStr(pipe_name)),
             KV("message",
                PyStr("Card '" \o card_title \o "' (ID: " \o ToString(card_id)
                      \o ") from pipe '" \o pipe_name
                      \o "' has been permanently deleted."))>>)

CharAt(raw, i) == IF i >= 1 /\ i <= Len(raw) THEN SubSeq(raw, i, i) ELSE ""

IsQuote(c) == c = "'" \/ c = "\""

CodeChars == {"A", "B", "C", "D", "E", "F", "G", "H", "I", "J", "K", "L", "M",
              "N", "O", "P", "Q", "R", "S", "T", "U", "V", "W", "X", "Y", "Z",
              "_"}

\* [A-Z_]
IsCodeChar(c) == c \in CodeChars

\* [^'"]
IsIdChar(c) == c # "" /\ ~IsQuote(c)

\* \s*
RECURSIVE SkipSpace(_, _)
SkipSpace(raw, i) == IF CharAt(raw, i) = " " THEN SkipSpace(raw, i + 1) ELSE i

\* the character class of the captured group: ([A-Z_]+) for code,
\* ([^'"]+) for correlation_id
Accepts(key, c) == IF key = "code" THEN IsCodeChar(c) ELSE IsIdChar(c)

\* the end of the longest run of accepted characters starting at i
RECURSIVE RunEnd(_, _, _)
RunEnd(raw, i, key) ==
    IF Accepts(key, CharAt(raw, i)) THEN RunEnd(raw, i + 1, key) ELSE i

\* ['"]key['"]\s*[:=]\s*['"](value)['"] matched at position i
MatchAt(raw, i, key) ==
    LET n == Len(key)
        colon == SkipSpace(raw, i + n + 2)
        open == SkipSpace(raw, colon + 1)
        close == RunEnd(raw, open + 1, key)
        ok == /\ IsQuote(CharAt(raw, i))
              /\ i + n <= Len(raw)
              /\ SubSeq(raw, i + 1, i + n) = key
              /\ IsQuote(CharAt(raw, i + n + 1))
              /\ CharAt(raw, colon) \in {":", "="}
              /\ IsQuote(CharAt(raw, open))
              /\ close > open + 1
              /\ IsQuote(CharAt(raw, close))
    IN  IF ok
        THEN [ok |-> TRUE, value |-> SubSeq(raw, open + 1, close - 1),
              next |-> close + 1]
        ELSE [ok |-> FALSE, value |-> "", next |-> i + 1]

\* re.findall
RECURSIVE FindAll(_, _, _)
FindAll(raw, i, key) ==
    IF i > Len(raw) THEN <<>>
    ELSE LET m == MatchAt(raw, i, key)
         IN  IF m.ok THEN <<m.value>> \o FindAll(raw, m.next, key)
             ELSE FindAll(raw, i + 1, key)

\* `extensions.code` of the entries of exc.errors
ExtensionCodes(errors) ==
    LET HasCode(item) ==
            /\ item.tag = "dict"
            /\ DictHas(item, "extensions")
            /\ DictAt(item, "extensions").tag = "dict"
            /\ DictHas(DictAt(item, "extensions"), "code")
            /\ DictAt(DictAt(item, "extensions"), "code").tag = "str"
            /\ DictAt(DictAt(item, "extensions"), "code").atom # ""
        kept == SelectSeq(errors, HasCode)
    IN  [i \in 1..Len(kept) |-> DictAt(DictAt(kept[i], "extensions"), "code").atom]

\* De-dup while preserving order
RECURSIVE Unique(_)
Unique(codes) ==
    IF codes = <<>> THEN <<>>
    ELSE LET init == Unique(SubSeq(codes, 1, Len(codes) - 1))
             last == codes[Len(codes)]
         IN  IF \E i \in 1..Len(init) : init[i] = last
             THEN init ELSE Append(init, last)

\* _extract_graphql_error_codes
extract_graphql_error_codes(exc) ==
    Unique(ExtensionCodes(exc.items) \o FindAll(exc.atom, 1, "code"))

\* _extract_graphql_correlation_id: None is the empty string here, which
\* the caller treats alike (`if correlation_id:`).
extract_graphql_correlation_id(exc) ==
    LET found == FindAll(exc.atom, 1, "correlation_id")
    IN  IF found = <<>> THEN "" ELSE found[1]

\* sep.join(parts)
RECURSIVE Join(_, _)
Join(parts, sep) ==
    IF parts = <<>> THEN ""
    ELSE IF Len(parts) = 1 THEN parts[1]
    ELSE parts[1] \o sep \o Join(Tail(parts), sep)

\* _with_debug_suffix
with_debug_suffix(message, debug, codes, correlation_id) ==
    LET parts == (IF codes # <<>> THEN <<"codes=" \o Join(codes, ",")>> ELSE <<>>)
                 \o (IF correlation_id # ""
                     THEN <<"correlation_id=" \o correlation_id>> ELSE <<>>)
    IN  IF ~debug \/ parts = <<>> THEN message
        ELSE message \o " (debug: " \o Join(parts, "; ") \o ")"

KnownDeleteCodes == {"RESOURCE_NOT_FOUND", "PERMISSION_DENIED", "RECORD_NOT_DESTROYED"}

MapLastKnownCode(card_id, card_title, codes) ==
    LET known == {i \in 1..Len(codes) : codes[i] \in KnownDeleteCodes}
        last == codes[CHOOSE i \in known : \A j \in known : i >= j]
        failed == "Failed to delete card '" \o card_title \o "' (ID: "
                      \o ToString(card_id) \o "). "
    IN  IF known # {}
        THEN CASE last = "RESOURCE_NOT_FOUND" ->
                      "Card with ID " \o ToString(card_id) \o " not found. "
                          \o "Verify the card exists and you have access permissions."
               [] last = "PERMISSION_DENIED" ->
                      "You don't have permission to delete card "
                          \o ToString(card_id)
                          \o ". Please check your access permissions."
               [] OTHER -> failed \o "Please try again or contact support."
        ELSE IF codes # <<>>
        THEN failed \o "Codes: " \o Join(codes, ", ")
        ELSE failed \o "Please try again or contact support."

\* map_delete_card_error_to_message
map_delete_card_error_to_message(card_id, card_title, codes) ==
    LET known == {i \in 1..Len(codes) : codes[i] \in KnownDeleteCodes}
        first == codes[CHOOSE i \in known : \A j \in known : i <= j]
        failed == "Failed to delete card '" \o card_title \o "' (ID: "
                      \o ToString(card_id) \o "). "
    IN  IF known # {}
        THEN CASE first = "RESOURCE_NOT_FOUND" ->
                      "Card with ID " \o ToString(card_id) \o " not found. "
                          \o "Verify the card exists and you have access permissions."
               [] first = "PERMISSION_DENIED" ->
                      "You don't have permission to delete card "
                          \o ToString(card_id)
                          \o ". Please check your access permissions."
               [] OTHER -> failed \o "Please try again or contact support."
        ELSE IF codes # <<>>
        THEN failed \o "Codes: " \o Join(codes, ", ")
        ELSE failed \o "Please try again or contact support."

\* The `except Exception as exc:` blocks of delete_card.
DeleteCardErrorPayload(exc, card_id, card_title, debug) ==
    LET codes == extract_graphql_error_codes(exc)
    IN  build_delete_card_error_payload(
            with_debug_suffix(
                map_delete_card_error_to_message(card_id, card_title, codes),
                debug, codes, extract_graphql_correlation_id(exc)))

\* ------------------------------------------- what the tools talk to

ClientCall(op, args) == [op |-> op, args |-> args]

CallsOf(op) == {i \in 1..Len(client_calls) : client_calls[i].op = op}

\* An answer to ctx.elicit: the user's action and the validated data, or
\* the exception the request raised.
ElicitResult(action, data) == [action |-> action, data |-> data]

ElicitRaised == ElicitResult("raised", PyException("RuntimeError", "elicit failed"))

ToolCardIds == {-1, 0, 1, 2}

GetCardResponses ==
    {PyDict(<<KV("card", PyDict(<<KV("id", PyStr("1")),
                                  KV("title", PyStr("Test Card")),
                                  KV("pipe", PyDict(<<KV("name", PyStr("Test Pipe"))>>))>>))>>),
     PyDict(<<KV("card", PyDict(<<KV("title", PyStr("Test Card"))>>))>>),
     PyDict(<<KV("card", PyDict(<<KV("title", PyStr("Test Card")),
                                  KV("pipe", PyNone)>>))>>),
     PyDict(<<KV("card", PyDict(<<KV("id", PyStr("1"))>>))>>),
     PyDict(<<KV("card", PyNone)>>),
     PyDict(<<>>)}

ClientExceptions ==
    {PyExceptionWith("TransportQueryError", "GraphQL Error",
                     <<GraphQLError("Card not found", "RESOURCE_NOT_FOUND")>>),
     PyExceptionWith("TransportQueryError", "GraphQL Error",
                     <<GraphQLError("Permission denied", "PERMISSION_DENIED")>>),
     PyExceptionWith("TransportQueryError", "GraphQL Error",
                     <<GraphQLError("Not destroyed", "RECORD_NOT_DESTROYED")>>),
     PyExceptionWith("TransportQueryError",
                     "{'message': 'boom', 'extensions': {'code': 'INTERNAL_SERVER_ERROR', 'correlation_id': 'abc-123'}}",
                     <<GraphQLError("boom", "INTERNAL_SERVER_ERROR")>>),
     PyExceptionWith("TransportQueryError", "GraphQL Error",
                     <<GraphQLError("odd", "UNKNOWN_CODE"),
                       GraphQLError("Permission denied", "PERMISSION_DENIED"),
                       GraphQLError("Card not found", "RESOURCE_NOT_FOUND")>>),
     PyExceptionWith("TransportServerError", "connection reset", <<>>)}

ConfirmationAnswers ==
    {ElicitResult("accept", PyDict(<<KV("confirm", PyTrue)>>)),
     ElicitResult("accept", PyDict(<<KV("confirm", PyFalse)>>)),
     ElicitResult("decline", PyNone),
     ElicitResult("cancel", PyNone),
     ElicitRaised}

DeleteCardResponses ==
    {PyDict(<<KV("deleteCard", PyDict(<<KV("success", PyTrue)>>))>>),
     PyDict(<<KV("deleteCard", PyDict(<<KV("success", PyFalse)>>))>>),
     PyDict(<<KV("deleteCard", PyNone)>>),
     PyDict(<<>>)}

\* ------------------------------------------------------ delete_card tool

\* `if card_id <= 0:`
NegativeCardId(card_id) == card_id < 0

InvalidCardId(card_id) == card_id <= 0

InvalidCardIdMessage == "Invalid 'card_id'. Please provide a positive integer."

\* A preview that falls back to defaults where the card or its title is
\* missing: card_response.get("card") or {}, card_data.get("title", "Unknown").
CardPreviewWithDefaults(resp) ==
    LET found == DictGet(resp, "card", PyDict(<<>>))
        card == IF found.tag = "dict" THEN found ELSE PyDict(<<>>)
    IN  IF DictGet(card, "pipe", PyDict(<<>>)).tag # "dict"
        THEN [error |-> PyException("AttributeError",
                            "'NoneType' object has no attribute 'get'"),
              title |-> "", pipe |-> ""]
        ELSE [error |-> PyNone,
              title |-> DictGet(card, "title", PyStr("Unknown")).atom,
              pipe |-> DictGet(DictGet(card, "pipe", PyDict(<<>>)), "name",
                               PyStr("Unknown Pipe")).atom]

\* The try block after get_card: card_response["card"], card_data["title"],
\* card_data.get("pipe", {}).get("name", "Unknown Pipe").
CardPreview(resp) ==
    IF ~DictHas(resp, "card")
    THEN [error |-> PyException("KeyError", "'card'"), title |-> "", pipe |-> ""]
    ELSE LET card == DictAt(resp, "card")
         IN  IF card.tag # "dict"
             THEN [error |-> PyException("TypeError",
                                 "'NoneType' object is not subscriptable"),
                   title |-> "", pipe |-> ""]
             ELSE IF ~DictHas(card, "title")
             THEN [error |-> PyException("KeyError", "'title'"),
                   title |-> "", pipe |-> ""]
             ELSE IF DictGet(card, "pipe", PyDict(<<>>)).tag # "dict"
             THEN [error |-> PyException("AttributeError",
                                 "'NoneType' object has no attribute 'get'"),
                   title |-> "", pipe |-> ""]
             ELSE [error |-> PyNone,
                   title |-> DictAt(card, "title").atom,
                   pipe |-> DictGet(DictGet(card, "pipe", PyDict(<<>>)), "name",
                                    PyStr("Unknown Pipe")).atom]

\* What the confirmation block decides from the answer to ctx.elicit.
ConfirmationIgnoringAction(answer) ==
    IF answer.action = "raised" THEN "failed"
    ELSE IF answer.action = "accept"
            /\ ~Truthy(DictGet(answer.data, "confirm", PyNone))
    THEN "cancelled"
    ELSE "proceed"

ConfirmationIgnoringConfirm(answer) ==
    IF answer.action = "raised" THEN "failed"
    ELSE IF answer.action # "accept" THEN "cancelled"
    ELSE "proceed"

ConfirmationOutcome(answer) ==
    IF answer.action = "raised" THEN "failed"
    ELSE IF answer.action # "accept" THEN "cancelled"
    ELSE IF ~Truthy(DictGet(answer.data, "confirm", PyNone)) THEN "cancelled"
    ELSE "proceed"

ToolReturns(payload) ==
    /\ tool_ret' = payload
    /\ tool_pc' = "returned"

ToolRaises(exc) ==
    /\ tool_ret' = exc
    /\ tool_pc' = "raised"

\* `await client.<op>(...)`: the call is made and the tool suspends.
ToolCalls(op, args, at) ==
    /\ client_calls' = Append(client_calls, ClientCall(op, args))
    /\ tool_pc' = at
    /\ UNCHANGED tool_ret

CardIdArg(card_id) == PyDict(<<KV("card_id", PyInt(card_id))>>)

\* delete_card up to `await client.get_card(card_id)`
PipeTools_delete_card_invoke ==
    /\ tool_pc = "idle"
    /\ \E card_id \in ToolCardIds, debug \in BOOLEAN, elicit \in BOOLEAN :
        /\ tool' = "delete_card"
        /\ tool_args' = [NoToolArgs EXCEPT !.card_id = card_id, !.debug = debug]
        /\ can_elicit' = elicit
        /\ IF InvalidCardId(card_id)
             THEN /\ ToolReturns(build_delete_card_error_payload(InvalidCardIdMessage))
                  /\ UNCHANGED client_calls
             ELSE ToolCalls("get_card", CardIdArg(card_id), "get_card")
    /\ UNCHANGED <<elicitations, tool_local>>

\* get_card answers with a card: on to the confirmation, or straight to
\* `await client.delete_card(card_id)` when the session cannot elicit.
PipeTools_delete_card_got_card ==
    /\ tool_pc = "get_card"
    /\ \E resp \in GetCardResponses :
        LET preview == CardPreview(resp)
        IN  IF preview.error # PyNone
            THEN /\ ToolReturns(DeleteCardErrorPayload(preview.error,
                                    tool_args.card_id, "Unknown", tool_args.debug))
                 /\ tool_local' = [tool_local EXCEPT !.card_response = resp]
                 /\ UNCHANGED client_calls
            ELSE /\ tool_local' = [tool_local EXCEPT
                                      !.card_response = resp,
                                      !.card_title = PyStr(preview.title),
                                      !.pipe_name = PyStr(preview.pipe)]
                 /\ IF can_elicit
                      THEN /\ tool_pc' = "confirm"
                           /\ UNCHANGED <<client_calls, tool_ret>>
                      ELSE ToolCalls("delete_card", CardIdArg(tool_args.card_id),
                                     "delete")
    /\ UNCHANGED <<tool, tool_args, can_elicit, elicitations>>

\* get_card raises
PipeTools_delete_card_get_card_raises ==
    /\ tool_pc = "get_card"
    /\ \E exc \in ClientExceptions :
        /\ tool_local' = [tool_local EXCEPT !.exc = exc]
        /\ ToolReturns(DeleteCardErrorPayload(exc, tool_args.card_id, "Unknown",
                                              tool_args.debug))
    /\ UNCHANGED <<tool, tool_args, can_elicit, client_calls, elicitations>>

\* ctx.elicit(schema=DeleteCardConfirmation) answers
PipeTools_delete_card_answered ==
    /\ tool_pc = "confirm"
    /\ \E answer \in ConfirmationAnswers :
        /\ elicitations' = Append(elicitations, answer)
        /\ LET decision == ConfirmationOutcome(answer)
           IN  IF decision = "failed"
               THEN /\ ToolReturns(build_delete_card_error_payload(
                           "Failed to request confirmation: " \o answer.data.atom))
                    /\ UNCHANGED client_calls
               ELSE IF decision = "cancelled"
               THEN /\ ToolReturns(build_delete_card_error_payload(
                           "Card deletion cancelled by user."))
                    /\ UNCHANGED client_calls
               ELSE ToolCalls("delete_card", CardIdArg(tool_args.card_id), "delete")
    /\ UNCHANGED <<tool, tool_args, can_elicit, tool_local>>

\* client.delete_card answers and the tool reports success without
\* reading deleteCard.success.
DeletedWithoutReadingSuccess ==
    /\ tool_pc = "delete"
    /\ \E resp \in DeleteCardResponses :
        /\ tool_local' = [tool_local EXCEPT !.delete_response = resp]
        /\ ToolReturns(build_delete_card_success_payload(
               tool_args.card_id, tool_local.card_title.atom,
               tool_local.pipe_name.atom))
    /\ UNCHANGED <<tool, tool_args, can_elicit, client_calls, elicitations>>

\* client.delete_card answers
PipeTools_delete_card_deleted ==
    /\ tool_pc = "delete"
    /\ \E resp \in DeleteCardResponses :
        /\ tool_local' = [tool_local EXCEPT !.delete_response = resp]
        /\ LET delete_data == DictGet(resp, "deleteCard", PyDict(<<>>))
           IN  IF delete_data.tag # "dict"
               THEN ToolReturns(DeleteCardErrorPayload(
                        PyException("AttributeError",
                                    "'NoneType' object has no attribute 'get'"),
                        tool_args.card_id, tool_local.card_title.atom,
                        tool_args.debug))
               ELSE IF Truthy(DictGet(delete_data, "success", PyNone))
               THEN ToolReturns(build_delete_card_success_payload(
                        tool_args.card_id, tool_local.card_title.atom,
                        tool_local.pipe_name.atom))
               ELSE ToolReturns(build_delete_card_error_payload(
                        "Failed to delete card '" \o tool_local.card_title.atom
                            \o "' (ID: " \o ToString(tool_args.card_id)
                            \o "). Please try again or contact support."))
    /\ UNCHANGED <<tool, tool_args, can_elicit, client_calls, elicitations>>

\* client.delete_card raises
PipeTools_delete_card_delete_raises ==
    /\ tool_pc = "delete"
    /\ \E exc \in ClientExceptions :
        /\ tool_local' = [tool_local EXCEPT !.exc = exc]
        /\ ToolReturns(DeleteCardErrorPayload(exc, tool_args.card_id,
                           tool_local.card_title.atom, tool_args.debug))
    /\ UNCHANGED <<tool, tool_args, can_elicit, client_calls, elicitations>>

PipeTools_delete_card ==
    /\ tool \in {"none", "delete_card"}
    /\ \/ PipeTools_delete_card_invoke
       \/ PipeTools_delete_card_got_card
       \/ PipeTools_delete_card_get_card_raises
       \/ PipeTools_delete_card_answered
       \/ PipeTools_delete_card_deleted
       \/ PipeTools_delete_card_delete_raises

\* ------------------------------------------------ elicited field forms

TitleField ==
    PyDict(<<KV("id", PyStr("title")), KV("label", PyStr("Title")),
             KV("type", PyStr("short_text")), KV("required", PyTrue)>>)

NotesField ==
    PyDict(<<KV("id", PyStr("notes")), KV("label", PyStr("Notes")),
             KV("type", PyStr("long_text")), KV("required", PyFalse),
             KV("editable", PyFalse)>>)

ExpectedFieldLists ==
    {q \in SeqsUpTo({TitleField, NotesField}, MaxFields) :
        \A i, j \in 1..Len(q) : i # j => q[i] # q[j]}

ToolFieldsInputs ==
    {PyNone,
     PyDict(<<>>),
     PyDict(<<KV("title", PyStr("x"))>>),
     PyDict(<<KV("notes", PyStr("n")), KV("other", PyStr("o"))>>)}

\* _get_default_value: the prefilled value, else none for an optional field;
\* a required field without a prefilled value has no default.
HasDefault(field_def, default_values) ==
    \/ Truthy(default_values) /\ DictHas(default_values, DictAt(field_def, "id").atom)
    \/ ~Truthy(DictAt(field_def, "required"))

DefaultValue(field_def, default_values) ==
    IF Truthy(default_values) /\ DictHas(default_values, DictAt(field_def, "id").atom)
    THEN DictAt(default_values, DictAt(field_def, "id").atom)
    ELSE PyNone

\* What a validated DynamicFormModel can hold for one field: what the user
\* typed, or the field's default.
FormValues(field_def, default_values) ==
    {PyStr("typed")}
    \cup (IF HasDefault(field_def, default_values)
          THEN {DefaultValue(field_def, default_values)} ELSE {})

\* result.data.model_dump(): one key per expected field, in order
RECURSIVE model_dump(_, _)
model_dump(expected_fields, default_values) ==
    IF expected_fields = <<>> THEN {<<>>}
    ELSE {<<KV(DictAt(Head(expected_fields), "id").atom, v)>> \o rest :
            v \in FormValues(Head(expected_fields), default_values),
            rest \in model_dump(Tail(expected_fields), default_values)}

\* The answers ctx.elicit(schema=DynamicFormModel) can give.
FormAnswers(expected_fields, prefilled_fields) ==
    {ElicitResult("accept", PyDict(d)) :
        d \in model_dump(expected_fields.items, prefilled_fields)}
    \cup {ElicitResult("decline", PyNone), ElicitResult("cancel", PyNone),
          ElicitRaised}

\* _elicit_field_details: raises what ctx.elicit raised, raises
\* UserCancelledError unless the action is accept, else returns the data.
elicit_field_details(answer) ==
    IF answer.action = "raised" THEN "raised"
    ELSE IF answer.action # "accept" THEN "cancelled"
    ELSE "data"

\* `fields or {}`
OrEmptyDict(fields) == IF Truthy(fields) THEN fields ELSE PyDict(<<>>)

\* ------------------------------------------------------ create_card tool

ToolStartFormResponses ==
    {PyDict(<<KV("pipe", PyDict(<<KV("start_form_fields", PyList(q))>>))>>) :
        q \in ExpectedFieldLists}
    \cup {PyDict(<<KV("pipe", PyNone)>>)}

CreateCardCancelled ==
    PyDict(<<KV("error", PyStr("Card creation cancelled by user."))>>)

CreateCardArgs(pipe_id, card_data) ==
    PyDict(<<KV("pipe_id", PyInt(pipe_id)), KV("fields", card_data)>>)

WithCardLinkAlways(response) ==
    LET created == DictGet(response, "createCard", PyDict(<<>>))
        card == IF created.tag = "dict"
                THEN DictGet(created, "card", PyDict(<<>>)) ELSE PyNone
        card_id == IF card.tag = "dict" THEN DictGet(card, "id", PyNone) ELSE PyNone
        card_url == "https://app.pipefy.com/open-cards/" \o card_id.atom
    IN  PyDict(response.items
               \o <<KV("card_link",
                       PyStr("[" \o card_url \o "](" \o card_url \o ")"))>>)

\* the tail of the tool: card_link is added when the response carries an id
with_card_link(response) ==
    LET created == DictGet(response, "createCard", PyDict(<<>>))
        card == IF created.tag = "dict"
                THEN DictGet(created, "card", PyDict(<<>>)) ELSE PyNone
        card_id == IF card.tag = "dict" THEN DictGet(card, "id", PyNone) ELSE PyNone
        card_url == "https://app.pipefy.com/open-cards/" \o card_id.atom
    IN  IF created.tag # "dict" \/ card.tag # "dict"
        THEN PyException("AttributeError",
                         "'NoneType' object has no attribute 'get'")
        ELSE IF Truthy(card_id)
        THEN PyDict(response.items
                    \o <<KV("card_link",
                            PyStr("[" \o card_url \o "](" \o card_url \o ")"))>>)
        ELSE response

PipeTools_create_card_invoke ==
    /\ tool_pc = "idle"
    /\ \E pipe_id \in Ids, fields \in ToolFieldsInputs,
          required_fields_only \in BOOLEAN, elicit \in BOOLEAN :
        /\ tool' = "create_card"
        /\ tool_args' = [NoToolArgs EXCEPT !.pipe_id = pipe_id, !.fields = fields,
                            !.required_fields_only = required_fields_only]
        /\ can_elicit' = elicit
        /\ ToolCalls("get_start_form_fields",
                     PyDict(<<KV("pipe_id", PyInt(pipe_id)),
                              KV("required_only",
                                 IF required_fields_only THEN PyTrue ELSE PyFalse)>>),
                     "get_start_form_fields")
    /\ UNCHANGED <<elicitations, tool_local>>

PipeTools_create_card_got_fields ==
    /\ tool_pc = "get_start_form_fields"
    /\ \E resp \in ToolStartFormResponses :
        LET form_fields == get_start_form_fields_result(
                               resp, tool_args.required_fields_only)
            expected_fields == DictGet(form_fields, "start_form_fields", PyList(<<>>))
        IN  IF IsException(form_fields)
            THEN /\ ToolRaises(form_fields)
                 /\ UNCHANGED <<client_calls, tool_local>>
            ELSE /\ tool_local' = [tool_local EXCEPT
                                      !.expected_fields = expected_fields]
                 /\ IF can_elicit
                      THEN /\ tool_pc' = "elicit"
                           /\ UNCHANGED <<client_calls, tool_ret>>
                      ELSE ToolCalls("create_card",
                                     CreateCardArgs(tool_args.pipe_id,
                                                    OrEmptyDict(tool_args.fields)),
                                     "create")
    /\ UNCHANGED <<tool, tool_args, can_elicit, elicitations>>

PipeTools_create_card_get_fields_raises ==
    /\ tool_pc = "get_start_form_fields"
    /\ \E exc \in ClientExceptions : ToolRaises(exc)
    /\ UNCHANGED <<tool, tool_args, can_elicit, client_calls, elicitations,
                   tool_local>>

PipeTools_create_card_answered ==
    /\ tool_pc = "elicit"
    /\ \E answer \in FormAnswers(tool_local.expected_fields, tool_args.fields) :
        /\ elicitations' = Append(elicitations, answer)
        /\ LET outcome_ == elicit_field_details(answer)
           IN  IF outcome_ = "raised"
               THEN /\ ToolRaises(answer.data)
                    /\ UNCHANGED <<client_calls, tool_local>>
               ELSE IF outcome_ = "cancelled"
               THEN /\ ToolReturns(CreateCardCancelled)
                    /\ UNCHANGED <<client_calls, tool_local>>
               ELSE /\ tool_local' = [tool_local EXCEPT !.data = answer.data]
                    /\ ToolCalls("create_card",
                                 CreateCardArgs(tool_args.pipe_id, answer.data),
                                 "create")
    /\ UNCHANGED <<tool, tool_args, can_elicit>>

PipeTools_create_card_created ==
    /\ tool_pc = "create"
    /\ \E resp \in CreateCardResponses :
        /\ tool_local' = [tool_local EXCEPT !.response = resp]
        /\ IF IsException(with_card_link(resp))
             THEN ToolRaises(with_card_link(resp))
             ELSE ToolReturns(with_card_link(resp))
    /\ UNCHANGED <<tool, tool_args, can_elicit, client_calls, elicitations>>

PipeTools_create_card_create_raises ==
    /\ tool_pc = "create"
    /\ \E exc \in ClientExceptions : ToolRaises(exc)
    /\ UNCHANGED <<tool, tool_args, can_elicit, client_calls, elicitations,
                   tool_local>>

PipeTools_create_card ==
    /\ tool \in {"none", "create_card"}
    /\ \/ PipeTools_create_card_invoke
       \/ PipeTools_create_card_got_fields
       \/ PipeTools_create_card_get_fields_raises
       \/ PipeTools_create_card_answered
       \/ PipeTools_create_card_created
       \/ PipeTools_create_card_create_raises

\* ------------------------------------------------- the client's update

\* PipefyClient.update_card hands its arguments to CardService.update_card
\* unchanged.
PipefyClient_update_card(a) == update_card(a)

UpdateCardArgs(a) ==
    PyDict(<<KV("card_id", PyInt(a.id)), KV("title", a.title),
             KV("assignee_ids", a.assignee_ids), KV("label_ids", a.label_ids),
             KV("due_date", a.due_date), KV("field_updates", a.field_updates)>>)

\* `return await client.update_card(...)` up to the await inside the
\* service: what the service raises before it leaves the tool uncaught.
AwaitUpdateCard(a) ==
    /\ client_calls' = Append(client_calls, ClientCall("update_card", UpdateCardArgs(a)))
    /\ IF PipefyClient_update_card(a).error # NoError
         THEN ToolRaises(PyException("ValueError", PipefyClient_update_card(a).error))
         ELSE /\ tool_pc' = "update"
              /\ UNCHANGED tool_ret

\* --------------------------------------------------- update_card tool

PipeTools_update_card_invoke ==
    /\ tool_pc = "idle"
    /\ \E card_id \in Ids, title \in TitleInputs, assignee_ids \in AssigneeInputs,
          label_ids \in LabelInputs, due_date \in DueDateInputs,
          field_updates \in FieldUpdatesInputs :
        LET a == [NoArgs EXCEPT !.id = card_id, !.title = title,
                                !.assignee_ids = assignee_ids,
                                !.label_ids = label_ids,
                                !.due_date = due_date,
                                !.field_updates = field_updates]
        IN  /\ tool' = "update_card"
            /\ tool_args' = [NoToolArgs EXCEPT !.card_id = card_id, !.update = a]
            /\ AwaitUpdateCard(a)
    /\ UNCHANGED <<can_elicit, elicitations, tool_local>>

PipeTools_update_card_updated ==
    /\ tool_pc = "update"
    /\ \E resp \in UpdateCardResponses : ToolReturns(resp)
    /\ UNCHANGED <<tool, tool_args, can_elicit, client_calls, elicitations,
                   tool_local>>

PipeTools_update_card_update_raises ==
    /\ tool_pc = "update"
    /\ \E exc \in ClientExceptions : ToolRaises(exc)
    /\ UNCHANGED <<tool, tool_args, can_elicit, client_calls, elicitations,
                   tool_local>>

PipeTools_update_card ==
    /\ tool \in {"none", "update_card"}
    /\ \/ PipeTools_update_card_invoke
       \/ PipeTools_update_card_updated
       \/ PipeTools_update_card_update_raises

\* ------------------------------------------ fill_card_phase_fields tool

PhaseNames == {"In Progress"}

\* what client.get_phase_fields hands back
PhaseFieldsResponses(phase_id) ==
    {PyDict(<<KV("phase_id", PyStr(ToString(phase_id))),
              KV("phase_name", PyStr(n)),
              KV("fields", PyList(q))>>) :
        n \in PhaseNames, q \in ExpectedFieldLists}
    \cup {PyDict(<<KV("phase_id", PyStr(ToString(phase_id)))>>)}

FillCancelled ==
    PyDict(<<KV("success", PyFalse),
             KV("error", PyStr("Phase field update cancelled by user."))>>)

NoFieldsToUpdate(phase_id, phase_name) ==
    PyDict(<<KV("success", PyTrue),
             KV("message", PyStr("No fields to update.")),
             KV("phase_id", PyInt(phase_id)),
             KV("phase_name", phase_name)>>)

\* [{"field_id": field_id, "value": value} for field_id, value in field_data.items()]
FieldUpdatesOf(field_data) ==
    PyList([i \in 1..Len(field_data.items) |->
               PyDict(<<KV("field_id", PyStr(field_data.items[i].k)),
                        KV("value", field_data.items[i].v)>>)])

\* from `if not field_data:` to the end of the tool
FillWith(field_data, phase_name) ==
    IF ~Truthy(field_data)
    THEN /\ ToolReturns(NoFieldsToUpdate(tool_args.phase_id, phase_name))
         /\ UNCHANGED <<client_calls, tool_args>>
    ELSE LET a == [NoArgs EXCEPT !.id = tool_args.card_id,
                                 !.field_updates = FieldUpdatesOf(field_data)]
         IN  /\ tool_args' = [tool_args EXCEPT !.update = a]
             /\ AwaitUpdateCard(a)

PipeTools_fill_card_phase_fields_invoke ==
    /\ tool_pc = "idle"
    /\ \E card_id \in Ids, phase_id \in Ids, fields \in ToolFieldsInputs,
          required_fields_only \in BOOLEAN, elicit \in BOOLEAN :
        /\ tool' = "fill_card_phase_fields"
        /\ tool_args' = [NoToolArgs EXCEPT !.card_id = card_id,
                            !.phase_id = phase_id, !.fields = fields,
                            !.required_fields_only = required_fields_only]
        /\ can_elicit' = elicit
        /\ ToolCalls("get_phase_fields",
                     PyDict(<<KV("phase_id", PyInt(phase_id)),
                              KV("required_only",
                                 IF required_fields_only THEN PyTrue ELSE PyFalse)>>),
                     "get_phase_fields")
    /\ UNCHANGED <<elicitations, tool_local>>

PipeTools_fill_card_phase_fields_got_fields ==
    /\ tool_pc = "get_phase_fields"
    /\ \E resp \in PhaseFieldsResponses(tool_args.phase_id) :
        LET expected_fields == DictGet(resp, "fields", PyList(<<>>))
            phase_name == DictGet(resp, "phase_name",
                                  PyStr("Phase " \o ToString(tool_args.phase_id)))
        IN  /\ tool_local' = [tool_local EXCEPT
                                 !.expected_fields = expected_fields,
                                 !.phase_name = phase_name]
            /\ IF can_elicit /\ Truthy(expected_fields)
                 THEN /\ tool_pc' = "elicit"
                      /\ UNCHANGED <<client_calls, tool_ret, tool_args>>
                 ELSE FillWith(OrEmptyDict(tool_args.fields), phase_name)
    /\ UNCHANGED <<tool, can_elicit, elicitations>>

PipeTools_fill_card_phase_fields_get_fields_raises ==
    /\ tool_pc = "get_phase_fields"
    /\ \E exc \in ClientExceptions : ToolRaises(exc)
    /\ UNCHANGED <<tool, tool_args, can_elicit, client_calls, elicitations,
                   tool_local>>

PipeTools_fill_card_phase_fields_answered ==
    /\ tool_pc = "elicit"
    /\ \E answer \in FormAnswers(tool_local.expected_fields, tool_args.fields) :
        /\ elicitations' = Append(elicitations, answer)
        /\ LET outcome_ == elicit_field_details(answer)
           IN  IF outcome_ = "raised"
               THEN /\ ToolRaises(answer.data)
                    /\ UNCHANGED <<client_calls, tool_local, tool_args>>
               ELSE IF outcome_ = "cancelled"
               THEN /\ ToolReturns(FillCancelled)
                    /\ UNCHANGED <<client_calls, tool_local, tool_args>>
               ELSE /\ tool_local' = [tool_local EXCEPT !.data = answer.data]
                    /\ FillWith(answer.data, tool_local.phase_name)
    /\ UNCHANGED <<tool, can_elicit>>

PipeTools_fill_card_phase_fields_updated ==
    /\ tool_pc = "update"
    /\ \E resp \in UpdateCardResponses : ToolReturns(resp)
    /\ UNCHANGED <<tool, tool_args, can_elicit, client_calls, elicitations,
                   tool_local>>

PipeTools_fill_card_phase_fields_update_raises ==
    /\ tool_pc = "update"
    /\ \E exc \in ClientExceptions : ToolRaises(exc)
    /\ UNCHANGED <<tool, tool_args, can_elicit, client_calls, elicitations,
                   tool_local>>

PipeTools_fill_card_phase_fields ==
    /\ tool \in {"none", "fill_card_phase_fields"}
    /\ \/ PipeTools_fill_card_phase_fields_invoke
       \/ PipeTools_fill_card_phase_fields_got_fields
       \/ PipeTools_fill_card_phase_fields_get_fields_raises
       \/ PipeTools_fill_card_phase_fields_answered
       \/ PipeTools_fill_card_phase_fields_updated
       \/ PipeTools_fill_card_phase_fields_update_raises

\* ------------------------------------------------------ comment models

MAX_COMMENT_TEXT_LENGTH == 1000

RECURSIVE Repeat(_, _)
Repeat(c, n) ==
    IF n = 0 THEN ""
    ELSE IF n % 2 = 0 THEN LET half == Repeat(c, n \div 2) IN half \o half
    ELSE c \o Repeat(c, n - 1)

IsSpace(c) == c \in {" ", "\t", "\n"}

\* str.strip
Strip(s) ==
    LET inked == {i \in 1..Len(s) : ~IsSpace(CharAt(s, i))}
        first == CHOOSE i \in inked : \A j \in inked : i <= j
        last == CHOOSE i \in inked : \A j \in inked : i >= j
    IN  IF inked = {} THEN "" ELSE SubSeq(s, first, last)

TextUnstripped(text) ==
    Len(text) >= 1 /\ Len(text) <= MAX_COMMENT_TEXT_LENGTH

\* _CommentText: stripped, then min_length=1 and max_length=1000
ValidCommentText(text) ==
    Len(Strip(text)) >= 1 /\ Len(Strip(text)) <= MAX_COMMENT_TEXT_LENGTH

\* Field(gt=0)
PositiveId(id) == id > 0

CommentInputUnstripped(id, text) == PositiveId(id) /\ TextUnstripped(text)

\* CommentInput(card_id=..., text=...) and UpdateCommentInput(comment_id=...,
\* text=...) validate
CommentInputValid(id, text) == PositiveId(id) /\ ValidCommentText(text)

\* DeleteCommentInput(comment_id=...) validates
DeleteCommentInputValid(id) == PositiveId(id)

CommentTexts ==
    {"", "   ", "hello", "  Updated text \n",
     Repeat("a", MAX_COMMENT_TEXT_LENGTH),
     " " \o Repeat("a", MAX_COMMENT_TEXT_LENGTH) \o " ",
     Repeat("a", MAX_COMMENT_TEXT_LENGTH + 1)}

\* ----------------------------------------------- comment error mapping

LowerChar(c) ==
    CASE c = "A" -> "a" [] c = "B" -> "b" [] c = "C" -> "c" [] c = "D" -> "d"
      [] c = "E" -> "e" [] c = "F" -> "f" [] c = "G" -> "g" [] c = "H" -> "h"
      [] c = "I" -> "i" [] c = "J" -> "j" [] c = "K" -> "k" [] c = "L" -> "l"
      [] c = "M" -> "m" [] c = "N" -> "n" [] c = "O" -> "o" [] c = "P" -> "p"
      [] c = "Q" -> "q" [] c = "R" -> "r" [] c = "S" -> "s" [] c = "T" -> "t"
      [] c = "U" -> "u" [] c = "V" -> "v" [] c = "W" -> "w" [] c = "X" -> "x"
      [] c = "Y" -> "y" [] c = "Z" -> "z" [] OTHER -> c

RECURSIVE Lower(_)
Lower(s) ==
    IF s = "" THEN ""
    ELSE LowerChar(SubSeq(s, 1, 1)) \o Lower(SubSeq(s, 2, Len(s)))

\* `marker in haystack`
Contains(haystack, marker) ==
    \E i \in 1..(Len(haystack) - Len(marker) + 1) :
        SubSeq(haystack, i, i + Len(marker) - 1) = marker

\* _extract_error_strings: str(exc) when not empty, then the message of
\* every dict in exc.errors and every str in exc.errors, when not empty
extract_error_strings(exc) ==
    LET Message(item) ==
            IF item.tag = "dict" THEN DictGet(item, "message", PyNone) ELSE item
        Usable(item) == Message(item).tag = "str" /\ Message(item).atom # ""
        nested == SelectSeq(exc.items, Usable)
    IN  (IF exc.atom # "" THEN <<exc.atom>> ELSE <<>>)
        \o [i \in 1..Len(nested) |-> Message(nested[i]).atom]

NotFoundMarkers ==
    {"not found", "record not found", "could not find", "does not exist",
     "doesn't exist"}

PermissionMarkers ==
    {"permission", "not authorized", "unauthorized", "forbidden",
     "access denied", "not allowed"}

InvalidInputMarkers ==
    {"invalid", "validation", "must be", "can't be", "cannot be", "required",
     "blank"}

InvalidInputMarkersNoBlank == InvalidInputMarkers \ {"blank"}

AnyMarker(markers, haystack) == \E m \in markers : Contains(haystack, m)

CommentMessages(not_found_msg, permission_msg, invalid_msg, fallback_msg) ==
    [not_found |-> not_found_msg, permission |-> permission_msg,
     invalid |-> invalid_msg, fallback |-> fallback_msg]

MapCaseSensitive(exc, msgs, invalid_markers) ==
    LET haystack == Join(extract_error_strings(exc), " ")
    IN  IF AnyMarker(NotFoundMarkers, haystack) THEN msgs.not_found
        ELSE IF AnyMarker(PermissionMarkers, haystack) THEN msgs.permission
        ELSE IF AnyMarker(invalid_markers, haystack) THEN msgs.invalid
        ELSE msgs.fallback

\* the shared mapping: " ".join(messages).lower() searched for the not-found
\* markers, then the permission markers, then the invalid-input markers
map_comment_like_error(exc, msgs, invalid_markers) ==
    LET haystack == Lower(Join(extract_error_strings(exc), " "))
    IN  IF AnyMarker(NotFoundMarkers, haystack) THEN msgs.not_found
        ELSE IF AnyMarker(PermissionMarkers, haystack) THEN msgs.permission
        ELSE IF AnyMarker(invalid_markers, haystack) THEN msgs.invalid
        ELSE msgs.fallback

AddCommentMessages ==
    CommentMessages(
        "Card not found. Please verify 'card_id' and access permissions.",
        "You don't have permission to comment on this card.",
        "Invalid input. Please provide a valid 'card_id' and non-empty 'text'.",
        "Unexpected error while adding comment. Please try again.")

UpdateCommentMessages ==
    CommentMessages(
        "Comment not found. Please verify 'comment_id' and access permissions.",
        "You don't have permission to update this comment.",
        "Invalid input. Please provide a valid 'comment_id' and non-empty 'text'.",
        "Unexpected error while updating comment. Please try again.")

DeleteCommentMessages ==
    CommentMessages(
        "Comment not found. Please verify 'comment_id' and access permissions.",
        "You don't have permission to delete this comment.",
        "Invalid input. Please provide a valid 'comment_id'.",
        "Unexpected error while deleting comment. Please try again.")

map_add_card_comment_error_to_message(exc) ==
    map_comment_like_error(exc, AddCommentMessages, InvalidInputMarkers)

map_update_comment_error_to_message(exc) ==
    map_comment_like_error(exc, UpdateCommentMessages, InvalidInputMarkers)

map_delete_comment_error_to_message(exc) ==
    map_comment_like_error(exc, DeleteCommentMessages, InvalidInputMarkersNoBlank)

\* build_*_comment_error_payload
build_comment_error_payload(message) ==
    PyDict(<<KV("success", PyFalse), KV("error", PyStr(message))>>)

\* build_add_card_comment_success_payload / build_update_comment_success_payload
build_comment_success_payload(comment_id) ==
    PyDict(<<KV("success", PyTrue), KV("comment_id", PyStr(comment_id.atom))>>)

\* build_delete_comment_success_payload
build_delete_comment_success_payload == PyDict(<<KV("success", PyTrue)>>)

\* what the client's comment calls raise
CommentExceptions ==
    {PyExceptionWith("TransportQueryError", "GraphQL Error",
                     <<PyDict(<<KV("message", PyStr("Card Not Found")),
                                KV("extensions",
                                   PyDict(<<KV("code", PyStr("NOT_FOUND"))>>))>>)>>),
     PyExceptionWith("TransportQueryError", "GraphQL Error",
                     <<GraphQLError("Permission denied", "PERMISSION_DENIED")>>),
     PyExceptionWith("TransportQueryError", "Could not",
                     <<PyDict(<<KV("message", PyStr("find it"))>>)>>),
     PyExceptionWith("TransportQueryError", "GraphQL Error", <<PyStr("FORBIDDEN")>>),
     PyException("Exception", "Permission denied: record does not exist"),
     PyException("Exception", "Not authorized: text can't be blank"),
     PyException("Exception", "Text is required"),
     PyException("Exception", "Text is Blank"),
     PyException("Exception", "boom"),
     PyException("Exception", "")}

\* ["createComment"]["comment"]["id"] and the like: the id, or the error
\* the subscripting raises
CommentIdIn(response, root) ==
    IF ~DictHas(response, root)
    THEN PyException("KeyError", "'" \o root \o "'")
    ELSE IF DictAt(response, root).tag # "dict"
    THEN PyException("TypeError", "'NoneType' object is not subscriptable")
    ELSE IF ~DictHas(DictAt(response, root), "comment")
    THEN PyException("KeyError", "'comment'")
    ELSE IF DictAt(DictAt(response, root), "comment").tag # "dict"
    THEN PyException("TypeError", "'NoneType' object is not subscriptable")
    ELSE IF ~DictHas(DictAt(DictAt(response, root), "comment"), "id")
    THEN PyException("KeyError", "'id'")
    ELSE DictAt(DictAt(DictAt(response, root), "comment"), "id")

CommentResponses(root) ==
    {PyDict(<<KV(root, PyDict(<<KV("comment", PyDict(<<KV("id", PyStr("c_987"))>>))>>))>>),
     PyDict(<<KV(root, PyDict(<<KV("comment", PyDict(<<KV("id", PyInt(987))>>))>>))>>),
     PyDict(<<KV(root, PyDict(<<KV("comment", PyDict(<<>>))>>))>>),
     PyDict(<<KV(root, PyDict(<<KV("comment", PyNone)>>))>>),
     PyDict(<<KV(root, PyNone)>>),
     PyDict(<<>>)}

CommentArgs(id_key, id, text) ==
    PyDict(<<KV(id_key, PyInt(id)), KV("text", PyStr(text))>>)

\* ------------------------------------------------- add_card_comment tool

PipeTools_add_card_comment_invoke ==
    /\ tool_pc = "idle"
    /\ \E card_id \in ToolCardIds, text \in CommentTexts :
        /\ tool' = "add_card_comment"
        /\ tool_args' = [NoToolArgs EXCEPT !.card_id = card_id, !.text = text]
        /\ IF CommentInputValid(card_id, text)
             THEN ToolCalls("add_card_comment",
                            CommentArgs("card_id", card_id, Strip(text)),
                            "add_comment")
             ELSE /\ ToolReturns(build_comment_error_payload(AddCommentMessages.invalid))
                  /\ UNCHANGED client_calls
    /\ UNCHANGED <<can_elicit, elicitations, tool_local>>

PipeTools_add_card_comment_added ==
    /\ tool_pc = "add_comment"
    /\ \E response \in CommentResponses("createComment") :
        LET comment_id == CommentIdIn(response, "createComment")
        IN  IF IsException(comment_id)
            THEN /\ tool_local' = [tool_local EXCEPT !.exc = comment_id]
                 /\ ToolReturns(build_comment_error_payload(
                        map_add_card_comment_error_to_message(comment_id)))
            ELSE /\ ToolReturns(build_comment_success_payload(comment_id))
                 /\ UNCHANGED tool_local
    /\ UNCHANGED <<tool, tool_args, can_elicit, client_calls, elicitations>>

PipeTools_add_card_comment_raises ==
    /\ tool_pc = "add_comment"
    /\ \E exc \in CommentExceptions :
        /\ tool_local' = [tool_local EXCEPT !.exc = exc]
        /\ ToolReturns(build_comment_error_payload(
               map_add_card_comment_error_to_message(exc)))
    /\ UNCHANGED <<tool, tool_args, can_elicit, client_calls, elicitations>>

PipeTools_add_card_comment ==
    /\ tool \in {"none", "add_card_comment"}
    /\ \/ PipeTools_add_card_comment_invoke
       \/ PipeTools_add_card_comment_added
       \/ PipeTools_add_card_comment_raises

\* --------------------------------- update_comment and delete_comment tools

PipeTools_update_comment_invoke ==
    /\ tool_pc = "idle"
    /\ \E comment_id \in ToolCardIds, text \in CommentTexts :
        /\ tool' = "update_comment"
        /\ tool_args' = [NoToolArgs EXCEPT !.comment_id = comment_id, !.text = text]
        /\ IF CommentInputValid(comment_id, text)
             THEN ToolCalls("update_comment",
                            CommentArgs("comment_id", comment_id, Strip(text)),
                            "update_comment")
             ELSE /\ ToolReturns(build_comment_error_payload(UpdateCommentMessages.invalid))
                  /\ UNCHANGED client_calls
    /\ UNCHANGED <<can_elicit, elicitations, tool_local>>

PipeTools_update_comment_updated ==
    /\ tool_pc = "update_comment"
    /\ \E response \in CommentResponses("updateComment") :
        LET comment_id == CommentIdIn(response, "updateComment")
        IN  IF IsException(comment_id)
            THEN /\ tool_local' = [tool_local EXCEPT !.exc = comment_id]
                 /\ ToolReturns(build_comment_error_payload(
                        map_update_comment_error_to_message(comment_id)))
            ELSE /\ ToolReturns(build_comment_success_payload(comment_id))
                 /\ UNCHANGED tool_local
    /\ UNCHANGED <<tool, tool_args, can_elicit, client_calls, elicitations>>

PipeTools_update_comment_raises ==
    /\ tool_pc = "update_comment"
    /\ \E exc \in CommentExceptions :
        /\ tool_local' = [tool_local EXCEPT !.exc = exc]
        /\ ToolReturns(build_comment_error_payload(
               map_update_comment_error_to_message(exc)))
    /\ UNCHANGED <<tool, tool_args, can_elicit, client_calls, elicitations>>

PipeTools_update_comment ==
    /\ tool \in {"none", "update_comment"}
    /\ \/ PipeTools_update_comment_invoke
       \/ PipeTools_update_comment_updated
       \/ PipeTools_update_comment_raises

DeleteCommentResponses ==
    {PyDict(<<KV("deleteComment", PyDict(<<KV("success", PyTrue)>>))>>)}

PipeTools_delete_comment_invoke ==
    /\ tool_pc = "idle"
    /\ \E comment_id \in ToolCardIds :
        /\ tool' = "delete_comment"
        /\ tool_args' = [NoToolArgs EXCEPT !.comment_id = comment_id]
        /\ IF DeleteCommentInputValid(comment_id)
             THEN ToolCalls("delete_comment",
                            PyDict(<<KV("comment_id", PyInt(comment_id))>>),
                            "delete_comment")
             ELSE /\ ToolReturns(build_comment_error_payload(DeleteCommentMessages.invalid))
                  /\ UNCHANGED client_calls
    /\ UNCHANGED <<can_elicit, elicitations, tool_local>>

PipeTools_delete_comment_deleted ==
    /\ tool_pc = "delete_comment"
    /\ \E response \in DeleteCommentResponses :
        ToolReturns(build_delete_comment_success_payload)
    /\ UNCHANGED <<tool, tool_args, can_elicit, client_calls, elicitations,
                   tool_local>>

PipeTools_delete_comment_raises ==
    /\ tool_pc = "delete_comment"
    /\ \E exc \in CommentExceptions :
        /\ tool_local' = [tool_local EXCEPT !.exc = exc]
        /\ ToolReturns(build_comment_error_payload(
               map_delete_comment_error_to_message(exc)))
    /\ UNCHANGED <<tool, tool_args, can_elicit, client_calls, elicitations>>

PipeTools_delete_comment ==
    /\ tool \in {"none", "delete_comment"}
    /\ \/ PipeTools_delete_comment_invoke
       \/ PipeTools_delete_comment_deleted
       \/ PipeTools_delete_comment_raises

\* ---------------------------------------------------- one tool invocation

ToolNext ==
    /\ \/ PipeTools_delete_card
       \/ PipeTools_create_card
       \/ PipeTools_update_card
       \/ PipeTools_fill_card_phase_fields
       \/ PipeTools_add_card_comment
       \/ PipeTools_update_comment
       \/ PipeTools_delete_comment
    /\ UNCHANGED <<adapterVars, serviceVars, constructionVars>>

InitTools == ToolIdle /\ AdapterIdle /\ ServiceIdle /\ NotConstructing

SpecTools == InitTools /\ [][ToolNext]_vars

\* ------------------------------------------------- claims: the adapter

InSession(t) == pc[t] \in {"in_session", "executing", "exiting"}

AllCallsDone == \A t \in Tasks : pc[t] = "done"

\* C1: concurrent execute_query calls through one BasePipefyClient instance
\* never hold the client session at the same time, none of them ever sees
\* "Transport is already connected", a finished call hands back the answer
\* to its own request (or the error its own upstream call raised), and no
\* call is ever left stuck.
C1_SameInstanceSerialized ==
    /\ \A t, u \in Tasks :
          (t # u /\ instanceOf[t] = instanceOf[u])
              => ~(InSession(t) /\ InSession(u))
    /\ \A t \in Tasks : outcome[t].error # "TransportAlreadyConnected"
    /\ \A t \in Tasks :
          pc[t] = "done" =>
              \/ result[t] = UpstreamResponse(variables[t])
              \/ (result[t].kind = "raised"
                    /\ result[t].error \in UpstreamErrors)
    /\ AllCallsDone \/ ENABLED AdapterNext

\* C1 witness: one call has finished with its own answer while a second is
\* inside the session and a third is queued on the same lock.
C1_Witness ==
    \E t, u, w \in Tasks :
        /\ pc[t] = "done" /\ result[t] = UpstreamResponse(variables[t])
        /\ pc[u] = "executing"
        /\ pc[w] = "waiting"
        /\ instanceOf[t] = instanceOf[u] /\ instanceOf[u] = instanceOf[w]

\* C2: system-wide, whatever service a call goes through, at most one
\* execute is in flight on the shared gql client and no call observes the
\* client already connected.
C2_OneInFlightSystemWide ==
    /\ \A t, u \in Tasks : t # u => ~(InSession(t) /\ InSession(u))
    /\ \A t \in Tasks : outcome[t].error # "TransportAlreadyConnected"

C17_LockIsFifo ==
    [][\A t \in Tasks :
          (pc[t] # "locked" /\ pc'[t] = "locked") =>
              \/ waiters[instanceOf[t]] = <<>>
              \/ Head(waiters[instanceOf[t]]) = t]_vars

\* C17 witness: two calls wait on the same lock; the earlier one has been
\* woken by the release and the later one still waits.
C17_Witness ==
    \E a \in Instances :
        /\ Len(waiters[a]) = 2
        /\ pc[waiters[a][1]] = "woken"
        /\ pc[waiters[a][2]] = "waiting"

\* ------------------------------------------------ claims: the services

NonEmptyList(v) == v.tag = "list" /\ v.items # <<>>

LacksKey(entry) ==
    \/ \A i \in 1..Len(entry.items) : entry.items[i].k # "field_id"
    \/ \A i \in 1..Len(entry.items) : entry.items[i].k # "value"

Malformed(field_updates) ==
    /\ NonEmptyList(field_updates)
    /\ \E i \in 1..Len(field_updates.items) : LacksKey(field_updates.items[i])

UpdateCardInvoked == svc_op = "update_card" /\ svc_pc # "idle"

\* C6 as stated: every update_card call issues exactly one mutation, the
\* updateFieldsValues mutation if and only if field_updates is non-empty.
C6_ExactlyOneMutation ==
    UpdateCardInvoked =>
        /\ Len(requests) = 1
        /\ requests[1].doc =
              IF NonEmptyList(svc_args.field_updates)
              THEN "UPDATE_FIELDS_VALUES_MUTATION"
              ELSE "UPDATE_CARD_MUTATION"

\* C6 amended: every update_card call issues at most one mutation; it
\* issues none exactly when field_updates holds an entry lacking field_id or
\* value (the call then raises ValueError), and otherwise exactly one, which
\* is updateFieldsValues if and only if field_updates is non-empty and
\* updateCard otherwise; the two are never both issued.
C6_OneMutationUnlessMalformed ==
    UpdateCardInvoked =>
        IF Malformed(svc_args.field_updates)
        THEN /\ requests = <<>>
             /\ svc_pc = "raised" /\ svc_ret.tag = "ValueError"
        ELSE /\ Len(requests) = 1
             /\ requests[1].doc =
                   IF NonEmptyList(svc_args.field_updates)
                   THEN "UPDATE_FIELDS_VALUES_MUTATION"
                   ELSE "UPDATE_CARD_MUTATION"

\* C6 witness: a call with both field updates and attributes has returned
\* after its single updateFieldsValues mutation.
C6_Witness ==
    /\ UpdateCardInvoked /\ svc_pc = "returned"
    /\ NonEmptyList(svc_args.field_updates)
    /\ svc_args.title # PyNone /\ svc_args.label_ids # PyNone
    /\ Len(requests) = 1
    /\ requests[1].doc = "UPDATE_FIELDS_VALUES_MUTATION"

CreateCardInvoked == svc_op = "create_card" /\ svc_pc # "idle"

SentFields == DictAt(requests[1].variables, "fields")

KeysOf(d) == {d.items[i].k : i \in 1..Len(d.items)}

\* C8: the fields sent by create_card follow the conversion rule: a map
\* gives one {field_id, field_value, generated_by_ai: true} entry per key in
\* key order; a list keeps its length and order, a dict entry without
\* generated_by_ai gaining generated_by_ai=true and every other entry staying
\* as it is; any other truthy value v gives [v]; a falsy one gives [].
C8_ConversionRule ==
    CreateCardInvoked =>
        LET f == svc_args.fields
            out == SentFields
        IN  /\ Len(requests) = 1
            /\ out.tag = "list"
            /\ f.tag = "dict" =>
                  /\ Len(out.items) = Len(f.items)
                  /\ \A i \in 1..Len(f.items) :
                        out.items[i] =
                            PyDict(<<KV("field_id", PyStr(f.items[i].k)),
                                     KV("field_value", f.items[i].v),
                                     KV("generated_by_ai", PyTrue)>>)
            /\ f.tag = "list" =>
                  /\ Len(out.items) = Len(f.items)
                  /\ \A i \in 1..Len(f.items) :
                        LET x == f.items[i]
                            y == out.items[i]
                        IN  IF x.tag = "dict" /\ "generated_by_ai" \notin KeysOf(x)
                            THEN /\ y.tag = "dict"
                                 /\ KeysOf(y) = KeysOf(x) \cup {"generated_by_ai"}
                                 /\ DictAt(y, "generated_by_ai") = PyTrue
                                 /\ \A k \in KeysOf(x) : DictAt(y, k) = DictAt(x, k)
                            ELSE y = x
            /\ f.tag \notin {"dict", "list"} =>
                  out.items = IF f \in {PyNone, PyStr(""), PyInt(0), PyFalse}
                              THEN <<>> ELSE <<f>>

\* C8 witness: create_card was given a list holding an entry with
\* generated_by_ai=false and an entry without the key.
C8_Witness ==
    /\ CreateCardInvoked
    /\ svc_args.fields.tag = "list" /\ Len(svc_args.fields.items) = 2
    /\ svc_args.fields.items[1] =
          PyDict(<<KV("generated_by_ai", PyFalse)>> \o FieldItem)
    /\ svc_args.fields.items[2] = PyDict(FieldItem)
    /\ SentFields.items[1] = svc_args.fields.items[1]
    /\ DictAt(SentFields.items[2], "generated_by_ai") = PyTrue

FieldModeRequest ==
    /\ UpdateCardInvoked
    /\ requests # <<>>
    /\ requests[1].doc = "UPDATE_FIELDS_VALUES_MUTATION"

SentValues == DictAt(DictAt(requests[1].variables, "input"), "values")

FormattedAs(entry, operation) ==
    PyDict(<<KV("fieldId", DictAt(entry, "field_id")),
             KV("value", DictAt(entry, "value")),
             KV("operation", PyStr(operation)),
             KV("generatedByAi", PyTrue)>>)

\* C9: every entry is sent as {fieldId, value, operation: O,
\* generatedByAi: true} with O the upper-cased supplied operation, or
\* "REPLACE" when the operation is absent or empty; length and order kept.
C9_ReplaceWhenAbsentOrEmpty ==
    FieldModeRequest =>
        LET in == svc_args.field_updates.items
            out == SentValues.items
        IN  /\ Len(out) = Len(in)
            /\ \A i \in 1..Len(in) :
                  out[i] = FormattedAs(in[i],
                      IF "operation" \in KeysOf(in[i])
                            /\ DictAt(in[i], "operation") # PyStr("")
                      THEN Upper(DictAt(in[i], "operation").atom)
                      ELSE "REPLACE")

StartFormReturned ==
    svc_op = "get_start_form_fields" /\ svc_pc = "returned"

\* The field list the API answered with (nothing when the key is missing
\* or null).
ApiFields ==
    IF /\ "pipe" \in KeysOf(svc_resp)
       /\ DictAt(svc_resp, "pipe").tag = "dict"
       /\ "start_form_fields" \in KeysOf(DictAt(svc_resp, "pipe"))
       /\ DictAt(DictAt(svc_resp, "pipe"), "start_form_fields").tag = "list"
    THEN DictAt(DictAt(svc_resp, "pipe"), "start_form_fields").items
    ELSE <<>>

RequiredTrue(field) ==
    "required" \in KeysOf(field) /\ DictAt(field, "required") = PyTrue

\* out is in made of exactly the entries of in that satisfy Keep, in order
KeptInOrder(out, in, Keep(_)) ==
    \E f \in [1..Len(out) -> 1..Len(in)] :
        /\ \A i, j \in 1..Len(out) : i < j => f[i] < f[j]
        /\ \A i \in 1..Len(out) : out[i] = in[f[i]]
        /\ {f[i] : i \in 1..Len(out)} = {j \in 1..Len(in) : Keep(in[j])}

\* C10: get_start_form_fields never returns an empty list silently: the
\* result has a message exactly when its start_form_fields is empty; zero
\* API fields give the "no start form fields configured" message,
\* required_only with no required field gives the "no required fields"
\* message, and otherwise the list is the API list (with required_only,
\* exactly its required entries) in the original order.
C10_NoSilentEmptyList ==
    StartFormReturned =>
        LET out == DictAt(svc_ret, "start_form_fields").items
            noneRequired == \A j \in 1..Len(ApiFields) : ~RequiredTrue(ApiFields[j])
        IN  /\ "start_form_fields" \in KeysOf(svc_ret)
            /\ "message" \in KeysOf(svc_ret) <=> out = <<>>
            /\ ApiFields = <<>> =>
                  /\ out = <<>>
                  /\ DictAt(svc_ret, "message") =
                        PyStr("This pipe has no start form fields configured.")
            /\ (ApiFields # <<>> /\ svc_args.required_only /\ noneRequired) =>
                  /\ out = <<>>
                  /\ DictAt(svc_ret, "message") =
                        PyStr("This pipe has no required fields in the start form.")
            /\ (ApiFields # <<>> /\ ~svc_args.required_only) => out = ApiFields
            /\ (ApiFields # <<>> /\ svc_args.required_only) =>
                  KeptInOrder(out, ApiFields, RequiredTrue)

\* C10 witness: required_only dropped an optional field and kept the
\* required one that followed it.
C10_Witness ==
    /\ StartFormReturned
    /\ svc_args.required_only
    /\ Len(ApiFields) = 2
    /\ ~RequiredTrue(ApiFields[1]) /\ RequiredTrue(ApiFields[2])
    /\ DictAt(svc_ret, "start_form_fields").items = <<ApiFields[2]>>
    /\ "message" \notin KeysOf(svc_ret)


SearchReturned ==
    /\ svc_op = "search_pipes" /\ svc_pc = "returned"
    /\ Truthy(svc_args.pipe_name)

ApiOrganizations == DictGet(svc_resp, "organizations", PyList(<<>>)).items

ReturnedOrganizations == DictAt(svc_ret, "organizations").items

ApiPipes(org) == DictGet(org, "pipes", PyList(<<>>)).items

ScoreOf(pipe) == Similarity(svc_args.pipe_name.atom, PipeDisplayName(pipe))

AtThreshold(pipe) == ScoreOf(pipe) >= svc_args.match_threshold * 100

\* an organization of the API answer with a pipe at or above the threshold
Surviving(org) == \E i \in 1..Len(ApiPipes(org)) : AtThreshold(ApiPipes(org)[i])

WithoutMatchScore(pipe) ==
    PyDict(SelectSeq(pipe.items, LAMBDA kv : kv.k # "match_score"))

\* C11: search_pipes with a pipe_name returns, for every organization, exactly
\* its pipes whose similarity score is >= match_threshold, each carrying
\* match_score, in descending score order; organizations without such a pipe
\* are absent and the others keep their relative order.
C11_PipesAtOrAboveThreshold ==
    SearchReturned =>
        LET kept == SelectSeq(ApiOrganizations, Surviving)
            out == ReturnedOrganizations
        IN  /\ Len(out) = Len(kept)
            /\ \A i \in 1..Len(out) :
                  LET pipes == DictAt(out[i], "pipes").items
                      wanted == SelectSeq(ApiPipes(kept[i]), AtThreshold)
                  IN  /\ DictAt(out[i], "id") = DictAt(kept[i], "id")
                      /\ Len(pipes) = Len(wanted)
                      /\ \A j \in 1..Len(pipes) :
                            /\ DictHas(pipes[j], "match_score")
                            /\ \E k \in 1..Len(wanted) :
                                  WithoutMatchScore(pipes[j]) = wanted[k]
                      /\ \A j \in 1..(Len(pipes) - 1) :
                            ScoreOf(WithoutMatchScore(pipes[j]))
                                >= ScoreOf(WithoutMatchScore(pipes[j + 1]))

FacadeOperations ==
    {"get_card", "create_card", "get_start_form_fields", "update_card"}

VariablesOf(reqs) == [i \in 1..Len(reqs) |-> reqs[i].variables]

RaisedBeforeRequest == svc_pc = "raised" /\ requests = <<>>

\* C19: PipefyClient is a pure facade: for every public operation and all
\* arguments the variables it sends and the value it returns are those of
\* the PipeService / CardService method called with the same arguments.
C19_FacadeMatchesServices ==
    (svc_op \in FacadeOperations /\ svc_pc # "idle") =>
        /\ VariablesOf(PipefyClient(svc_op, svc_args).requests)
              = VariablesOf(requests)
        /\ (PipefyClient(svc_op, svc_args).raised # PyNone) = RaisedBeforeRequest
        /\ RaisedBeforeRequest => PipefyClient(svc_op, svc_args).raised = svc_ret
        /\ svc_pc = "returned" =>
              PipefyClient_returns(svc_op, svc_resp, svc_args) = svc_ret

\* --------------------------------------------------- claims: the tools

SideEffectOps == {"delete_card", "create_card", "update_card"}

SideEffectCalls == {i \in 1..Len(client_calls) : client_calls[i].op \in SideEffectOps}

Accepted(answer) == answer.action = "accept"

Confirmed(answer) ==
    /\ Accepted(answer)
    /\ DictGet(answer.data, "confirm", PyNone) = PyTrue

\* the elicitation came back with a result that is no go-ahead
NotAccepted(answer) ==
    \/ answer.action \in {"decline", "cancel"}
    \/ /\ tool = "delete_card"
       /\ Accepted(answer)
       /\ DictGet(answer.data, "confirm", PyNone) = PyFalse

ElicitingTools == {"delete_card", "create_card", "fill_card_phase_fields"}

\* C3: on an elicitation-capable session, once the elicitation of
\* delete_card, create_card or fill_card_phase_fields comes back with an
\* action other than accept (or, for delete_card, accepted with
\* confirm=false), the invocation has returned and has issued no
\* delete_card, create_card or update_card call to the client.
C3_CancellationLeavesNoSideEffect ==
    (tool \in ElicitingTools /\ can_elicit) =>
        \A i \in 1..Len(elicitations) :
            NotAccepted(elicitations[i]) =>
                /\ SideEffectCalls = {}
                /\ tool_pc = "returned"

\* C3 witness: delete_card fetched the card, asked, was declined, and
\* returned its cancellation payload with only get_card called.
C3_Witness ==
    /\ tool = "delete_card" /\ can_elicit
    /\ Len(elicitations) = 1 /\ elicitations[1].action = "decline"
    /\ tool_pc = "returned"
    /\ tool_ret = build_delete_card_error_payload("Card deletion cancelled by user.")
    /\ Len(client_calls) = 1 /\ client_calls[1].op = "get_card"

\* C4 as stated: in every execution of delete_card, the client's
\* delete_card call is issued only after a confirmation request was
\* answered with action accept and confirm=true.
C4_DeleteOnlyAfterConfirmation ==
    (tool = "delete_card" /\ CallsOf("delete_card") # {}) =>
        \E i \in 1..Len(elicitations) : Confirmed(elicitations[i])

\* C4 amended: on a session that declares the elicitation capability, the
\* client's delete_card call is issued only after the one confirmation
\* request was answered with accept and confirm=true; on a session without
\* the capability no confirmation is requested and the delete call is issued
\* as soon as the card preview has been fetched.
C4_DeleteGatedWhenElicitable ==
    /\ (tool = "delete_card" /\ CallsOf("delete_card") # {}) =>
          IF can_elicit
          THEN Len(elicitations) = 1 /\ Confirmed(elicitations[1])
          ELSE elicitations = <<>>
    /\ (tool = "delete_card" /\ ~can_elicit /\ tool_local.card_title # PyNone) =>
          /\ Cardinality(CallsOf("delete_card")) = 1
          /\ elicitations = <<>>

\* C4 witness: on an elicitation-capable session the card was deleted after
\* the confirmation was accepted with confirm=true.
C4_Witness ==
    /\ tool = "delete_card" /\ can_elicit
    /\ Len(elicitations) = 1 /\ Confirmed(elicitations[1])
    /\ Len(client_calls) = 2 /\ client_calls[2].op = "delete_card"
    /\ tool_pc = "returned"
    /\ DictGet(tool_ret, "success", PyNone) = PyTrue

\* C5: for every card_id <= 0 the delete_card tool returns exactly
\* {success: false, error: "Invalid 'card_id'. Please provide a positive
\* integer."} and makes no client call and no elicitation request.
C5_NonPositiveCardIdRejected ==
    (tool = "delete_card" /\ tool_args.card_id <= 0) =>
        /\ tool_pc = "returned"
        /\ tool_ret = PyDict(<<KV("success", PyFalse),
                               KV("error", PyStr("Invalid 'card_id'. Please provide a positive integer."))>>)
        /\ client_calls = <<>>
        /\ elicitations = <<>>

\* C5 witness: delete_card was invoked with card_id = 0 and has returned.
C5_Witness ==
    /\ tool = "delete_card" /\ tool_args.card_id = 0
    /\ tool_pc = "returned"
    /\ client_calls = <<>>

\* C7: a field-update entry lacking field_id or value, passed to the
\* update_card tool or built by fill_card_phase_fields, makes the tool
\* return a {success: false, error: ...} payload; the tool does not raise.
C7_MalformedEntryCaughtAtToolLayer ==
    (/\ tool \in {"update_card", "fill_card_phase_fields"}
     /\ Malformed(tool_args.update.field_updates)) =>
        /\ tool_pc = "returned"
        /\ tool_ret.tag = "dict"
        /\ DictGet(tool_ret, "success", PyNone) = PyFalse
        /\ DictHas(tool_ret, "error")


CommentTools == {"add_card_comment", "update_comment", "delete_comment"}

CommentToolId ==
    IF tool = "add_card_comment" THEN tool_args.card_id ELSE tool_args.comment_id

TrimmedLength == Len(Strip(tool_args.text))

SatisfiesCommentInvariants ==
    /\ CommentToolId > 0
    /\ tool # "delete_comment" => (TrimmedLength >= 1 /\ TrimmedLength <= 1000)

FailurePayload(payload) ==
    /\ payload.tag = "dict"
    /\ DictGet(payload, "success", PyNone) = PyFalse
    /\ DictHas(payload, "error")

\* C12: add_card_comment, update_comment and delete_comment call their client
\* method if and only if the id is > 0 and (for add and update) the trimmed
\* text has between 1 and 1000 characters; otherwise they return a
\* {success: false, error} payload and make no client call.
C12_CommentInvariantsGateTheCall ==
    tool \in CommentTools =>
        IF SatisfiesCommentInvariants
        THEN /\ Len(client_calls) = 1
             /\ client_calls[1].op = tool
        ELSE /\ client_calls = <<>>
             /\ tool_pc = "returned"
             /\ FailurePayload(tool_ret)

\* C12 witness: add_card_comment was given 1000 characters padded with
\* blanks, called the client with the trimmed text and returned the new id.
C12_Witness ==
    /\ tool = "add_card_comment" /\ tool_pc = "returned"
    /\ Len(tool_args.text) = 1002 /\ TrimmedLength = 1000
    /\ Len(client_calls) = 1
    /\ Len(DictAt(client_calls[1].args, "text").atom) = 1000
    /\ DictGet(tool_ret, "success", PyNone) = PyTrue

CommentHaystack == Lower(Join(extract_error_strings(tool_local.exc), " "))

\* C13: whatever is raised while add_card_comment calls the client or reads
\* the comment id becomes {success: false, error: m}, the tool never raising;
\* m is the not-found sentence if the lower-cased concatenation of str(exc)
\* and the nested messages holds a not-found marker, else the permission
\* sentence if it holds a permission marker, else the invalid-input sentence
\* if it holds an invalid-input marker, else the generic fallback.
C13_CommentErrorsMapped ==
    tool = "add_card_comment" =>
        /\ tool_pc # "raised"
        /\ tool_local.exc # PyNone =>
              /\ tool_pc = "returned"
              /\ tool_ret = PyDict(<<KV("success", PyFalse),
                     KV("error", PyStr(
                        IF AnyMarker(NotFoundMarkers, CommentHaystack)
                        THEN "Card not found. Please verify 'card_id' and access permissions."
                        ELSE IF AnyMarker(PermissionMarkers, CommentHaystack)
                        THEN "You don't have permission to comment on this card."
                        ELSE IF AnyMarker(InvalidInputMarkers, CommentHaystack)
                        THEN "Invalid input. Please provide a valid 'card_id' and non-empty 'text'."
                        ELSE "Unexpected error while adding comment. Please try again."))>>)

\* C13 witness: the client raised an error naming both a permission and a
\* not-found marker, and the tool returned the not-found sentence.
C13_Witness ==
    /\ tool = "add_card_comment" /\ tool_pc = "returned"
    /\ tool_local.exc = PyException("Exception",
                                    "Permission denied: record does not exist")
    /\ DictAt(tool_ret, "error") =
          PyStr("Card not found. Please verify 'card_id' and access permissions.")


\* ids of the expected field definitions that carry editable = false
NonEditableIds ==
    IF tool_local.expected_fields.tag # "list" THEN {}
    ELSE {DictAt(tool_local.expected_fields.items[i], "id").atom :
            i \in {j \in 1..Len(tool_local.expected_fields.items) :
                     ~Truthy(DictGet(tool_local.expected_fields.items[j],
                                     "editable", PyTrue))}}

\* the field ids a create_card or update_card client call carries
SentFieldIds(call) ==
    IF call.op = "create_card"
    THEN {DictAt(call.args, "fields").items[i].k :
            i \in 1..Len(DictAt(call.args, "fields").items)}
    ELSE IF call.op = "update_card"
    THEN {DictAt(DictAt(call.args, "field_updates").items[i], "field_id").atom :
            i \in 1..Len(DictAt(call.args, "field_updates").items)}
    ELSE {}

\* C14: create_card and fill_card_phase_fields never send to the API a value
\* for a field whose definition has editable = false, with or without
\* elicitation.
C14_NonEditableNeverSent ==
    tool \in {"create_card", "fill_card_phase_fields"} =>
        \A i \in 1..Len(client_calls) :
            SentFieldIds(client_calls[i]) \cap NonEditableIds = {}


ElicitationRaised ==
    /\ elicitations # <<>>
    /\ elicitations[Len(elicitations)].action = "raised"

\* C18: in create_card, fill_card_phase_fields and delete_card an
\* elicitation request that raises ends the tool like a cancellation: the
\* tool returns a non-success payload and the exception does not leave the
\* tool.
C18_RaisingElicitationIsCancellation ==
    (tool \in ElicitingTools /\ ElicitationRaised) =>
        /\ tool_pc = "returned"
        /\ tool_ret.tag = "dict"
        /\ DictHas(tool_ret, "error")
        /\ DictGet(tool_ret, "success", PyFalse) # PyTrue

DeleteCardFailed ==
    /\ tool = "delete_card"
    /\ tool_pc = "returned"
    /\ tool_local.exc # PyNone

RaisedCodes == extract_graphql_error_codes(tool_local.exc)

RecognisedAt == {i \in 1..Len(RaisedCodes) : RaisedCodes[i] \in KnownDeleteCodes}

FirstRecognised ==
    RaisedCodes[CHOOSE i \in RecognisedAt : \A j \in RecognisedAt : i <= j]

TitleInMessage ==
    IF tool_local.card_title = PyNone THEN "Unknown"
    ELSE tool_local.card_title.atom

FailedToDelete ==
    "Failed to delete card '" \o TitleInMessage \o "' (ID: "
        \o ToString(tool_args.card_id) \o "). "

MessageOfCode(code) ==
    IF code = "RESOURCE_NOT_FOUND"
    THEN "Card with ID " \o ToString(tool_args.card_id)
            \o " not found. Verify the card exists and you have access permissions."
    ELSE IF code = "PERMISSION_DENIED"
    THEN "You don't have permission to delete card "
            \o ToString(tool_args.card_id)
            \o ". Please check your access permissions."
    ELSE FailedToDelete \o "Please try again or contact support."

\* the returned error is the sentence, plus the debug suffix when asked for
ErrorSays(sentence) ==
    LET error == DictAt(tool_ret, "error").atom
    IN  \/ error = sentence
        \/ /\ tool_args.debug
           /\ Len(error) > Len(sentence)
           /\ SubSeq(error, 1, Len(sentence) + 9) = sentence \o " (debug: "

NoClientSupplied == construction.client = PyNone

SettingsIncomplete ==
    \/ construction.settings = PyNone
    \/ \E key \in {"graphql_url", "oauth_url", "oauth_client", "oauth_secret"} :
          DictAt(construction.settings, key) = PyNone

ConstructionFailed ==
    /\ construction.pc = "raised"
    /\ construction.error.tag = "ValueError"
    /\ construction.self = PyNone
    /\ construction.transports = <<>>

\* C15: constructing BasePipefyClient raises a configuration error when both
\* a client and a schema are supplied and, when no client is supplied, when
\* settings is absent or one of graphql_url, oauth_url, oauth_client,
\* oauth_secret is None; a failed construction leaves no adapter object and
\* no transport; a client supplied alone constructs without settings.
C15_ConstructionFailsOnBadConfiguration ==
    construction.pc # "idle" =>
        /\ (construction.schema # PyNone /\ construction.client # PyNone)
              => ConstructionFailed
        /\ (NoClientSupplied /\ SettingsIncomplete) => ConstructionFailed
        /\ construction.pc = "raised" => ConstructionFailed
        /\ (construction.client # PyNone /\ construction.schema = PyNone)
              => /\ construction.pc = "returned"
                 /\ construction.self # PyNone
                 /\ construction.self.items[2] = construction.client

\* C15 witness: settings lacking only oauth_secret, no client: the
\* construction raised and built no transport.
C15_Witness ==
    /\ ConstructionFailed
    /\ NoClientSupplied
    /\ construction.settings # PyNone
    /\ DictAt(construction.settings, "oauth_secret") = PyNone
    /\ \A key \in {"graphql_url", "oauth_url", "oauth_client"} :
          DictAt(construction.settings, key) # PyNone


\* ------------------------------------------- claims: delete_card output

RecognisedCodes(exc) ==
    SelectSeq(extract_graphql_error_codes(exc), LAMBDA code : code \in KnownDeleteCodes)

\* C21: with debug = false the error string of delete_card holds neither a
\* raw GraphQL error code nor the correlation id, so two upstream failures
\* that differ only in their unrecognised codes or correlation id give the
\* same payload.
C21_NoDiagnosticsWithoutDebug ==
    (DeleteCardFailed /\ ~tool_args.debug) =>
        /\ \A i \in 1..Len(RaisedCodes) :
              ~Contains(DictAt(tool_ret, "error").atom, RaisedCodes[i])
        /\ extract_graphql_correlation_id(tool_local.exc) # "" =>
              ~Contains(DictAt(tool_ret, "error").atom,
                        extract_graphql_correlation_id(tool_local.exc))
        /\ \A other \in ClientExceptions :
              RecognisedCodes(other) = RecognisedCodes(tool_local.exc) =>
                  DeleteCardErrorPayload(other, tool_args.card_id,
                                         TitleInMessage, FALSE) = tool_ret


\* --------------------------------- claims: fill_card_phase_fields, create_card

\* the phase fields were fetched and the form, if any, has been answered
FormStepOver ==
    /\ tool = "fill_card_phase_fields"
    /\ tool_local.phase_name # PyNone
    /\ tool_pc # "elicit"

AcceptedWithoutValue ==
    /\ elicitations # <<>>
    /\ elicitations[Len(elicitations)].action = "accept"
    /\ \A i \in 1..Len(elicitations[Len(elicitations)].data.items) :
          elicitations[Len(elicitations)].data.items[i].v = PyNone

NothingSelectedOrEntered ==
    /\ ~Truthy(tool_args.fields)
    /\ elicitations = <<>> \/ AcceptedWithoutValue

\* C22: fill_card_phase_fields makes no update_card call and returns the
\* "No fields to update." message whenever no caller field is supplied and
\* the form, if one was shown, was accepted without any value entered.
C22_NothingEnteredMakesNoUpdate ==
    (FormStepOver /\ NothingSelectedOrEntered) =>
        /\ CallsOf("update_card") = {}
        /\ tool_pc = "returned"
        /\ DictGet(tool_ret, "message", PyNone) = PyStr("No fields to update.")


CardCreated ==
    /\ tool = "create_card"
    /\ tool_pc = "returned"
    /\ tool_local.response # PyNone

\* createCard.card.id of the raw response, or None
CreatedCardId ==
    LET created == DictGet(tool_local.response, "createCard", PyDict(<<>>))
        card == DictGet(created, "card", PyDict(<<>>))
    IN  DictGet(card, "id", PyNone)

LinkTo(card_id) ==
    PyStr("[https://app.pipefy.com/open-cards/" \o card_id
              \o "](https://app.pipefy.com/open-cards/" \o card_id \o ")")

\* C23: create_card returns the client's createCard response with exactly
\* one added key, card_link, derived from createCard.card.id, when that id
\* is present; every other key is unchanged, and no card_link is added when
\* the response carries no card id.
C23_OnlyCardLinkAdded ==
    CardCreated =>
        IF CreatedCardId # PyNone
        THEN tool_ret = PyDict(tool_local.response.items
                               \o <<KV("card_link", LinkTo(CreatedCardId.atom))>>)
        ELSE tool_ret = tool_local.response

\* C23 witness: the response carried the id 555 and the tool returned it
\* with the link to card 555.
C23_Witness ==
    /\ CardCreated
    /\ CreatedCardId = PyStr("555")
    /\ DictAt(tool_ret, "card_link") = LinkTo("555")
    /\ DictAt(tool_ret, "createCard") = DictAt(tool_local.response, "createCard")


\* ------------------------------------------- claims: stateless services

\* A service method is about to be entered: nothing of it is in flight.
Resting == svc_pc \in {"idle", "returned", "raised"}

\* The step issues exactly one request, the one the method builds from
\* these arguments.
IssuesRequestFor(op, a) ==
    /\ Len(requests') = Len(requests) + 1
    /\ SubSeq(requests', 1, Len(requests)) = requests
    /\ <<requests'[Len(requests')]>> = ServicePlan(op, a).requests

\* C24 as stated: every invocation of a CardService or PipeService method
\* issues exactly one execute_query, whose variables are those of the
\* invocation's own arguments, also when the same call was made before.
C24_ExactlyOneRequestPerInvocation ==
    [][Resting =>
          IssuesRequestFor(svc_op', svc_args')]_vars

\* C24 amended: every invocation issues exactly one execute_query whose
\* variables are those of the invocation's own arguments, also when the same
\* call was made before, except an update_card whose field_updates holds an
\* entry lacking field_id or value, which raises ValueError and issues none.
C24_OneRequestPerValidInvocation ==
    [][Resting =>
          IF svc_op' = "update_card" /\ Malformed(svc_args'.field_updates)
          THEN /\ requests' = requests
               /\ svc_pc' = "raised" /\ svc_ret'.tag = "ValueError"
          ELSE IssuesRequestFor(svc_op', svc_args')]_vars

\* C24 witness: the same call was made twice and the second one has
\* returned after issuing the same request anew.
C24_Witness ==
    /\ svc_pc = "returned"
    /\ Len(requests) = 2
    /\ requests[1] = requests[2]


\* ------------------------------------------- claims: delete_card ordering

DeletingPositive == tool = "delete_card" /\ tool_args.card_id > 0

\* get_card raised: the tool is over and get_card never answered.
GetCardRaised ==
    /\ tool_pc = "returned"
    /\ tool_local.card_response = PyNone
    /\ tool_local.exc # PyNone

\* get_card answered without a card, or with a card without a title.
GetCardLacksTitle ==
    /\ tool_local.card_response # PyNone
    /\ LET found == DictGet(tool_local.card_response, "card", PyNone)
       IN  found.tag # "dict" \/ ~DictHas(found, "title")

\* C25: for a positive card_id get_card is called exactly once and before
\* any confirmation request or delete call; when it raises, or answers
\* without the card or its title, the tool returns {success: false, error}
\* and neither a confirmation request nor a delete call follows.
C25_GetCardGatesDeletion ==
    DeletingPositive =>
        /\ CallsOf("get_card") = {1}
        /\ tool_pc = "get_card" =>
              elicitations = <<>> /\ CallsOf("delete_card") = {}
        /\ (GetCardRaised \/ GetCardLacksTitle) =>
              /\ tool_pc = "returned"
              /\ FailurePayload(tool_ret)
              /\ elicitations = <<>>
              /\ CallsOf("delete_card") = {}

\* C25 witness: get_card answered with a card that has no title and the
\* tool has returned.
C25_Witness ==
    /\ DeletingPositive
    /\ GetCardLacksTitle
    /\ tool_pc = "returned"


\* ------------------------------------------- claims: attribute mode

AttributeModeRequest ==
    /\ UpdateCardInvoked
    /\ requests # <<>>
    /\ requests[1].doc = "UPDATE_CARD_MUTATION"

SentInput == DictAt(requests[1].variables, "input")

\* The attribute arguments of update_card, by the key each is sent under.
AttributeArgs ==
    [title |-> svc_args.title, assignee_ids |-> svc_args.assignee_ids,
     label_ids |-> svc_args.label_ids, due_date |-> svc_args.due_date]

\* C26: in attribute mode the updateCard input always holds id = card_id
\* and holds title, assignee_ids, label_ids and due_date exactly for the
\* arguments that are not None, an empty list or empty string included; it
\* holds no other key.
C26_AttributeInputExact ==
    AttributeModeRequest =>
        /\ KeysOf(requests[1].variables) = {"input"}
        /\ DictAt(SentInput, "id") = PyInt(svc_args.id)
        /\ Len(SentInput.items) = Cardinality(KeysOf(SentInput))
        /\ KeysOf(SentInput) =
              {"id"} \cup {k \in DOMAIN AttributeArgs : AttributeArgs[k] # PyNone}
        /\ \A k \in DOMAIN AttributeArgs :
              AttributeArgs[k] # PyNone => DictAt(SentInput, k) = AttributeArgs[k]

\* C26 witness: an empty title and an empty assignee list were sent, the
\* label_ids and due_date left at None were not.
C26_Witness ==
    /\ AttributeModeRequest
    /\ svc_args.title = PyStr("") /\ svc_args.assignee_ids = PyList(<<>>)
    /\ svc_args.label_ids = PyNone /\ svc_args.due_date = PyNone
    /\ KeysOf(SentInput) = {"id", "title", "assignee_ids"}


\* ------------------------------------------- claims: field-update validation

\* The first entry of field_updates lacking field_id or value.
FirstOffending(field_updates) ==
    CHOOSE i \in 1..Len(field_updates.items) :
        /\ LacksKey(field_updates.items[i])
        /\ \A j \in 1..(i - 1) : ~LacksKey(field_updates.items[j])

\* The key the message names: field_id is looked for before value.
AbsentKey(entry) ==
    IF \A i \in 1..Len(entry.items) : entry.items[i].k # "field_id"
    THEN "field_id" ELSE "value"

\* C27: when any entry of field_updates lacks field_id or value,
\* update_card raises a validation error naming the index of the first such
\* entry and issues no execute_query, also when earlier entries are valid.
C27_ValidationPrecedesNetwork ==
    (UpdateCardInvoked /\ Malformed(svc_args.field_updates)) =>
        LET first == FirstOffending(svc_args.field_updates)
        IN  /\ svc_pc = "raised"
            /\ svc_ret.tag = "ValueError"
            /\ svc_ret.atom =
                  "Value at index " \o ToString(first - 1)
                      \o " is missing required '"
                      \o AbsentKey(svc_args.field_updates.items[first])
                      \o "' key"
            /\ requests = <<>>

\* C27 witness: the first entry was valid, the second lacked a key, and the
\* call raised naming index 1 without a request.
C27_Witness ==
    /\ UpdateCardInvoked
    /\ Malformed(svc_args.field_updates)
    /\ Len(svc_args.field_updates.items) = 2
    /\ ~LacksKey(svc_args.field_updates.items[1])
    /\ svc_pc = "raised"
    /\ requests = <<>>


\* ------------------------------------------- claims: delete_card success

DeleteCardReturned == tool = "delete_card" /\ tool_pc = "returned"

\* client.delete_card answered with a truthy deleteCard.success.
DeletionSucceeded ==
    /\ tool_local.delete_response # PyNone
    /\ LET delete_data == DictGet(tool_local.delete_response, "deleteCard", PyNone)
       IN  /\ delete_data.tag = "dict"
           /\ Truthy(DictGet(delete_data, "success", PyNone))

\* C28: delete_card returns {success: true} if and only if the client's
\* delete_card was called, exactly once, in that invocation and answered
\* with a truthy deleteCard.success; an answer without it, or an exception
\* from the call, yields {success: false, error}.
C28_SuccessOnlyForActualDeletion ==
    /\ tool = "delete_card" => Cardinality(CallsOf("delete_card")) <= 1
    /\ DeleteCardReturned =>
          /\ DictGet(tool_ret, "success", PyNone) = PyTrue
                <=> (Cardinality(CallsOf("delete_card")) = 1 /\ DeletionSucceeded)
          /\ DictGet(tool_ret, "success", PyNone) # PyTrue
                => FailurePayload(tool_ret)

\* C28 witness: the delete call answered deleteCard.success = false and the
\* tool returned a failure payload.
C28_Witness ==
    /\ DeleteCardReturned
    /\ tool_local.delete_response =
          PyDict(<<KV("deleteCard", PyDict(<<KV("success", PyFalse)>>))>>)
    /\ FailurePayload(tool_ret)


\* ------------------------------------------- claims: failure and recovery

\* The call of t is over and its caller got an exception.
Failed(t) == pc[t] = "done" /\ result[t].kind = "raised"

\* t is inside `async with self._client_lock`.
HoldsLock(t) ==
    pc[t] \in {"locked", "in_session", "executing", "exiting", "releasing"}

\* Nothing is held without a coroutine inside the block that holds it, and
\* a caller has its result only once its coroutine has left both blocks.
NothingLeftHeld ==
    /\ \A t \in Tasks : result[t] # NoOutcome => pc[t] = "done"
    /\ connected => \E t \in Tasks : InSession(t)
    /\ \A a \in Instances :
          locked[a] => \E t \in Tasks : instanceOf[t] = a /\ HoldsLock(t)

FieldUpdatesWithAttributes ==
    /\ UpdateCardInvoked
    /\ NonEmptyList(svc_args.field_updates)
    /\ \E k \in DOMAIN AttributeArgs : AttributeArgs[k] # PyNone

\* Exactly one request was sent, updateFieldsValues with input
\* {nodeId: card_id, values: one entry per field update} and nothing else.
OnlyFieldValuesSent ==
    /\ Len(requests) = 1
    /\ requests[1].doc = "UPDATE_FIELDS_VALUES_MUTATION"
    /\ KeysOf(requests[1].variables) = {"input"}
    /\ Len(SentInput.items) = 2
    /\ KeysOf(SentInput) = {"nodeId", "values"}
    /\ DictAt(SentInput, "nodeId") = PyInt(svc_args.id)
    /\ SentValues.tag = "list"
    /\ Len(SentValues.items) = Len(svc_args.field_updates.items)
    /\ \A i \in 1..Len(SentValues.items) :
          /\ DictAt(SentValues.items[i], "fieldId") =
                DictAt(svc_args.field_updates.items[i], "field_id")
          /\ DictAt(SentValues.items[i], "value") =
                DictAt(svc_args.field_updates.items[i], "value")

\* C30 as stated: an update_card call with non-empty field_updates and some
\* attribute argument sends a single request, whose input is exactly
\* {nodeId: card_id, values: [...]}; the attributes are dropped.
C30_AttributesDropped ==
    FieldUpdatesWithAttributes => OnlyFieldValuesSent

\* C30 amended: an update_card call with non-empty field_updates and some
\* attribute argument drops the attributes: when every entry has field_id
\* and value it sends a single request, whose input is exactly
\* {nodeId: card_id, values: [...]}; otherwise it raises ValueError and
\* sends nothing. No attribute is changed either way.
C30_AttributesDroppedUnlessRejected ==
    FieldUpdatesWithAttributes =>
        IF Malformed(svc_args.field_updates)
        THEN requests = <<>> /\ svc_pc = "raised"
        ELSE OnlyFieldValuesSent

\* C30 witness: a call with field updates, a title, assignees and a due
\* date has returned after a request carrying nodeId and values only.
C30_Witness ==
    /\ FieldUpdatesWithAttributes /\ svc_pc = "returned"
    /\ svc_args.title = PyStr("t")
    /\ svc_args.assignee_ids = PyList(<<PyInt(7)>>)
    /\ svc_args.due_date # PyNone
    /\ OnlyFieldValuesSent

====
